---- MODULE Spec2Model ----
(***************************************************************************)
(* Model of the snapshot gallery: the ingestion builder, the image         *)
(* transcoder's scale rule, the snapshot serializer and deserializer       *)
(* (src/utils/fileUtils.ts), the workspace component (src/temp_App.tsx)    *)
(* and the share dialog (src/components/Gallery.tsx, ShareModal).          *)
(*                                                                         *)
(* JavaScript strings are TLA+ strings.  A tree of FileNode objects is an  *)
(* arena: a sequence of node records, an object's identity being its       *)
(* position, `children' a sequence of positions and `parent' a position    *)
(* (0 when the field is undefined).  The root is position 1.               *)
(***************************************************************************)
EXTENDS Integers, Sequences, FiniteSets, TLC

VARIABLES
  codec,            \* the codec pipeline run on its own
  scale,            \* the transcoder's canvas sizing run on its own
  trees,            \* the arenas of the trees built so far
  revoked,          \* per object URL, how often URL.revokeObjectURL was called
  rootNode,         \* App state (temp_App.tsx:10-19)
  currentNode,
  allImages,
  viewMode,
  lightboxNode,
  isShareModalOpen,
  isImporting,
  stats,
  reader,           \* the FileReader of handleImport and the text it reads
  imported,         \* what the last import did with its text
  modal,            \* ShareModal state: step, progress, downloadUrl as
                    \* rendered, and the updates queued for them
  exports,          \* the handleGenerateSnapshot calls made so far
  passive           \* the effects of the last render still to run

appVars == <<trees, revoked, rootNode, currentNode, allImages, viewMode,
             lightboxNode, isShareModalOpen, isImporting, stats, reader,
             imported, modal, exports, passive>>

vars == <<codec, scale, appVars>>

(***************************************************************************)
(* Values of JavaScript.                                                   *)
(***************************************************************************)
\* The value `undefined' of an optional string or boolean field.
Undefined == "<undefined>"

\* Booleans of optional boolean fields are kept as strings so that they can
\* share a field with Undefined and with what a document has in their place.
JsTrue == "true"
JsFalse == "false"

\* The numbers 1 and 0 where a document has one for an optional boolean.
JsOne == "1"
JsZero == "0"

\* Truthiness of a value of an optional boolean field: undefined, false
\* and 0 are falsy, true and 1 are truthy.
Truthy(v) == v \notin {Undefined, JsFalse, JsZero}

\* !v (temp_App.tsx:140): a boolean whatever v is.
JsNot(v) == IF Truthy(v) THEN JsFalse ELSE JsTrue

\* v || false (fileUtils.ts:188): v itself when it is truthy, boolean or
\* not, and false otherwise.
OrFalse(v) == IF Truthy(v) THEN v ELSE JsFalse

\* Truthiness of a string-or-undefined field (fileUtils.ts:17, 55, 191).
TruthyStr(s) == s # Undefined /\ s # ""

\* Math.min(a, b)
Min(a, b) == IF a <= b THEN a ELSE b

\* s.startsWith(p)
StartsWith(s, p) == Len(s) >= Len(p) /\ SubSeq(s, 1, Len(p)) = p

\* s.split(sep) for a one-character separator: the segments between
\* separators, empty segments kept.
RECURSIVE SplitFrom(_, _, _)
SplitFrom(s, sep, acc) ==
  IF s = "" THEN <<acc>>
  ELSE IF SubSeq(s, 1, 1) = sep
       THEN <<acc>> \o SplitFrom(SubSeq(s, 2, Len(s)), sep, "")
       ELSE SplitFrom(SubSeq(s, 2, Len(s)), sep, acc \o SubSeq(s, 1, 1))

Split(s, sep) == SplitFrom(s, sep, "")

(***************************************************************************)
(* Bounds.                                                                 *)
(***************************************************************************)
\* Longest FileList drawn entry by entry from the pool.
MaxFiles == 2

\* Folders picked and snapshot files read to their end in one session.
MaxTrees == 2

\* Snapshot generations started in one session.
MaxExports == 2

(***************************************************************************)
(* Ingestion builder: parseFilesToTree (fileUtils.ts:3-68).                *)
(***************************************************************************)
\* Sequence helpers used throughout.
Range(s) == { s[i] : i \in DOMAIN s }

\* A File of a FileList: name, webkitRelativePath, media type, size and a
\* token standing for its content.
FileEntry(n, p, t, sz, b) ==
  [name |-> n, webkitRelativePath |-> p, type |-> t, size |-> sz, bytes |-> b]

\* The value of node.file when the field is not set.
NoFile == FileEntry(Undefined, Undefined, Undefined, 0, Undefined)

\* The entries FileLists are drawn from: files side by side and nested,
\* a shared folder prefix, a hidden file and a non-image each alone in a
\* folder of their own, a file named like a sibling folder, and an
\* entry without relative path.
FilePool ==
  { FileEntry("a.png",  "T/a.png",    "image/png",  3,  "YWFh"),
    FileEntry("x.png",  "T/A/x.png",  "image/png",  5,  "eHh4"),
    FileEntry("y.jpg",  "T/A/y.jpg",  "image/jpeg", 7,  "eXl5"),
    FileEntry(".h.png", "T/H/.h.png", "image/png",  11, "aGho"),
    FileEntry("n.txt",  "T/N/n.txt",  "text/plain", 13, "bm5u"),
    FileEntry("A",      "T/A",        "image/gif",  17, "QUFB"),
    FileEntry("b.png",  "",           "image/png",  19, "YmJi") }

\* Longer lists: a folder picked with a hidden and a non-image entry beside
\* an image; a folder whose entries arrive with a subfolder's files around
\* a file of the folder itself; the directory of the spec's scenario.
DroppingList ==
  << FileEntry(".h.png", "T/H/.h.png", "image/png",  11, "aGho"),
     FileEntry("x.png",  "T/A/x.png",  "image/png",  5,  "eHh4"),
     FileEntry("n.txt",  "T/N/n.txt",  "text/plain", 13, "bm5u") >>

InterleavedList ==
  << FileEntry("x.png",  "T/A/x.png",  "image/png",  5,  "eHh4"),
     FileEntry("a.png",  "T/a.png",    "image/png",  3,  "YWFh"),
     FileEntry("y.jpg",  "T/A/y.jpg",  "image/jpeg", 7,  "eXl5") >>

PhotosList ==
  << FileEntry("a.png",  "photos/a.png",     "image/png", 23, "cGFh"),
     FileEntry("b.png",  "photos/sub/b.png", "image/png", 29, "cGJi") >>

ScenarioLists == {DroppingList, InterleavedList, PhotosList}

\* The FileLists ingested: every list of at most n pool entries and the
\* longer lists.
FileLists(n) == UNION { [1..k -> FilePool] : k \in 0..n } \cup ScenarioLists

\* const root: FileNode (fileUtils.ts:4-10); file, url, parent and
\* isDeleted are not set.
RootNode ==
  [id |-> "root", name |-> "Root", path |-> "", type |-> "folder",
   children |-> <<>>, parent |-> 0, isDeleted |-> Undefined,
   file |-> NoFile, url |-> 0]

\* A slip that never finds the folder that is already there.
FindFolder_Never(nodes, kids, part) == 0

\* currentNode.children.find(child => child.name === part &&
\* child.type === 'folder') (fileUtils.ts:49): the first match, 0 if none.
RECURSIVE FindFolder(_, _, _)
FindFolder(nodes, kids, part) ==
  IF kids = <<>> THEN 0
  ELSE IF nodes[Head(kids)].name = part /\ nodes[Head(kids)].type = "folder"
       THEN Head(kids)
       ELSE FindFolder(nodes, Tail(kids), part)

\* A slip that puts the new child in front of its siblings.
PushChild_Front(nodes, cur, n) ==
  LET k == Len(nodes) + 1
  IN  [i \in 1..k |->
         IF i = k THEN n
         ELSE IF i = cur THEN [nodes[i] EXCEPT !.children = <<k>> \o @]
         ELSE nodes[i]]

\* currentNode.children.push(n) where n is the node appended to the arena.
PushChild(nodes, cur, n) ==
  LET k == Len(nodes) + 1
  IN  [i \in 1..k |->
         IF i = k THEN n
         ELSE IF i = cur THEN [nodes[i] EXCEPT !.children = Append(@, k)]
         ELSE nodes[i]]

\* A slip that leaves the name out of the id of a file node.
NewFileNode_FolderId(nodes, cur, part, file, u) ==
  [id |-> nodes[cur].path \o "/", name |-> part,
   path |-> file.webkitRelativePath, type |-> "file", children |-> <<>>,
   parent |-> cur, isDeleted |-> JsFalse, file |-> file, url |-> u]

\* The file node of an entry (fileUtils.ts:34-44).  u is the handle
\* URL.createObjectURL returns.
NewFileNode(nodes, cur, part, file, u) ==
  [id |-> nodes[cur].path \o "/" \o part, name |-> part,
   path |-> file.webkitRelativePath, type |-> "file", children |-> <<>>,
   parent |-> cur, isDeleted |-> JsFalse, file |-> file, url |-> u]

\* A slip that hangs every new folder's back-reference on the root.
NewFolderNode_RootParent(nodes, cur, part) ==
  [id |-> nodes[cur].path \o "/" \o part, name |-> part,
   path |-> IF TruthyStr(nodes[cur].path)
            THEN nodes[cur].path \o "/" \o part ELSE part,
   type |-> "folder", children |-> <<>>, parent |-> 1,
   isDeleted |-> Undefined, file |-> NoFile, url |-> 0]

\* A folder node created on the way (fileUtils.ts:52-59).
NewFolderNode(nodes, cur, part) ==
  [id |-> nodes[cur].path \o "/" \o part, name |-> part,
   path |-> IF TruthyStr(nodes[cur].path)
            THEN nodes[cur].path \o "/" \o part ELSE part,
   type |-> "folder", children |-> <<>>, parent |-> cur,
   isDeleted |-> Undefined, file |-> NoFile, url |-> 0]

\* pathParts.forEach((part, index) => ...) from index on (fileUtils.ts:30-64).
\* st = [nodes, allImages, nextUrl]; cur is currentNode.
RECURSIVE WalkParts(_, _, _, _, _)
WalkParts(st, cur, parts, index, file) ==
  IF index > Len(parts) THEN st
  ELSE
    LET part == parts[index]
        isFile == index = Len(parts)
    IN  IF isFile
        THEN [nodes |-> PushChild(st.nodes, cur,
                          NewFileNode(st.nodes, cur, part, file, st.nextUrl)),
              allImages |-> Append(st.allImages, Len(st.nodes) + 1),
              nextUrl |-> st.nextUrl + 1]
        ELSE
          LET found == FindFolder(st.nodes, st.nodes[cur].children, part)
          IN  IF found = 0
              THEN WalkParts([st EXCEPT !.nodes =
                                PushChild(st.nodes, cur,
                                          NewFolderNode(st.nodes, cur, part))],
                             Len(st.nodes) + 1, parts, index + 1, file)
              ELSE WalkParts(st, found, parts, index + 1, file)

\* A slip that forgets the media-type filter.
IngestFile_AnyType(st, file) ==
  LET pathParts == IF TruthyStr(file.webkitRelativePath)
                   THEN Split(file.webkitRelativePath, "/")
                   ELSE <<file.name>>
  IN  IF StartsWith(file.name, ".") THEN st
      ELSE WalkParts(st, 1, pathParts, 1, file)

\* The body of Array.from(files).forEach for one file (fileUtils.ts:14-65).
IngestFile(st, file) ==
  LET pathParts == IF TruthyStr(file.webkitRelativePath)
                   THEN Split(file.webkitRelativePath, "/")
                   ELSE <<file.name>>
  IN  IF StartsWith(file.name, ".") THEN st
      ELSE IF ~StartsWith(file.type, "image/") THEN st
      ELSE WalkParts(st, 1, pathParts, 1, file)

RECURSIVE IngestAll(_, _)
IngestAll(st, files) ==
  IF files = <<>> THEN st
  ELSE IngestAll(IngestFile(st, Head(files)), Tail(files))

\* parseFilesToTree(files): { root, allImages }.  firstUrl is the first
\* handle URL.createObjectURL hands out during the call.
parseFilesToTree(files, firstUrl) ==
  LET st == IngestAll([nodes |-> <<RootNode>>, allImages |-> <<>>,
                       nextUrl |-> firstUrl], files)
  IN  [nodes |-> st.nodes, allImages |-> st.allImages, nextUrl |-> st.nextUrl]

(***************************************************************************)
(* Image transcoder: the scale rule of processImageForExport               *)
(* (fileUtils.ts:87-98).                                                   *)
(***************************************************************************)
SHORT_EDGE_TARGET == 1024

\* Number of binary digits of n >= 0.
RECURSIVE BitLen(_)
BitLen(n) == IF n = 0 THEN 0 ELSE 1 + BitLen(n \div 2)

\* n without its factors of two, and the number of those factors (n >= 1).
RECURSIVE OddPart(_)
OddPart(n) == IF n % 2 = 0 THEN OddPart(n \div 2) ELSE n

RECURSIVE TwoExp(_)
TwoExp(n) == IF n % 2 = 0 THEN 1 + TwoExp(n \div 2) ELSE 0

\* 2^n, and 2^n modulo m by repeated doubling.
RECURSIVE Pow2(_)
Pow2(n) == IF n = 0 THEN 1 ELSE 2 * Pow2(n - 1)

\* a / c > d / b for positive integers, by integer parts and remainders
\* (no product is formed).
RECURSIVE FracGreater(_, _, _, _)
FracGreater(a, c, d, b) ==
  IF a \div c # d \div b THEN a \div c > d \div b
  ELSE IF a % c = 0 THEN FALSE
  ELSE IF d % b = 0 THEN TRUE
  ELSE FracGreater(b, d % b, c, a % c)

\* The exponent of the leading binary digit of num / so: the e with
\* 2^e <= num / so < 2^(e + 1).
Floor2(num, so) ==
  LET bn == BitLen(num)
      bs == BitLen(so)
      reaches == IF bn >= bs THEN num >= so * Pow2(bn - bs)
                 ELSE num * Pow2(bs - bn) >= so
  IN  IF reaches THEN bn - bs ELSE bn - bs - 1

\* (n * 2^e) mod m.
RECURSIVE ScaledMod(_, _, _)
ScaledMod(n, e, m) == IF e = 0 THEN n % m ELSE (2 * ScaledMod(n, e - 1, m)) % m

\* Whether the double v * (num / den) lies below the exact value k + 1/2 of
\* v * num / den.  With den = so * 2^b, so odd, the quotient num / den is
\* rounded to 53 binary digits: it is the integer nearest to num * 2^E / so
\* in units of its last digit, E = 52 - Floor2(num, so); with
\* R = (num * 2^E) mod so it is too small by R / so units when 2 * R < so
\* and exact or too large otherwise.  The product is rounded to 53 digits
\* again: it stays at k + 1/2 unless the error v * R / so exceeds half a
\* unit of the last digit below k + 1/2, which is 2^T units of the last
\* digit of the quotient.
TieFallsShort(v, num, den, k) ==
  LET so == OddPart(den)
      fl == Floor2(num, so)
      R == ScaledMod(num, 52 - fl, so)
      T == (IF k = 0 THEN -1 ELSE BitLen(k)) - 2 - fl + TwoExp(den)
  IN  /\ R # 0
      /\ 2 * R < so
      /\ T < 30
      /\ IF T >= 0 THEN FracGreater(v, so, Pow2(T), R)
         ELSE IF BitLen(v) - T > 30 THEN TRUE
         ELSE FracGreater(v * Pow2(-T), so, 1, R)

\* Math.round(v * (num / den)) on doubles (fileUtils.ts:95-97,
\* Gallery.tsx:179) for positive integers with v * num below 2^30.  Unless
\* v * num / den is an integer and a half, the double product is on the same
\* side of the half as the exact value (its error is below 1 / (2 * den))
\* and the result is the nearest integer.  At k + 1/2 the result is k + 1
\* when the double product is k + 1/2 or more, and k when it falls short of
\* it.
MathRound(v, num, den) ==
  LET twice == (2 * v * num) \div den
      tie == (2 * v * num) % den = 0 /\ twice % 2 = 1
      k == (twice - 1) \div 2
  IN  IF tie
      THEN IF TieFallsShort(v, num, den, k) THEN k ELSE k + 1
      ELSE (2 * v * num + den) \div (2 * den)

\* A slip that truncates instead of rounding.
ScaledSize_Floor(width, height) ==
  LET shortEdge == Min(width, height)
  IN  IF shortEdge > SHORT_EDGE_TARGET
      THEN [width  |-> (width * SHORT_EDGE_TARGET) \div shortEdge,
            height |-> (height * SHORT_EDGE_TARGET) \div shortEdge]
      ELSE [width |-> width, height |-> height]

\* canvas.width and canvas.height for an image of the given size
\* (fileUtils.ts:88-102).
ScaledSize(width, height) ==
  LET shortEdge == Min(width, height)
  IN  IF shortEdge > SHORT_EDGE_TARGET
      THEN [width  |-> MathRound(width, SHORT_EDGE_TARGET, shortEdge),
            height |-> MathRound(height, SHORT_EDGE_TARGET, shortEdge)]
      ELSE [width |-> width, height |-> height]

\* What the browser does with one processImageForExport call: the image is
\* read, decoded, drawn and encoded; the canvas is empty or larger than the
\* browser encodes; the read fails (reader.onerror); the decode fails
\* (img.onerror); the canvas has no 2d context; or the call throws before
\* it has set up its callbacks.
TranscodeEvents ==
  {"encoded", "blankCanvas", "readError", "imageError", "noContext", "throws"}

\* canvas.toDataURL('image/jpeg', 0.85) (fileUtils.ts:111): a JPEG data URL
\* of the drawn image, and the string 'data:,' for a canvas without pixels
\* or beyond the size the browser encodes.
ToDataURL(file, ev) ==
  IF ev = "blankCanvas" THEN "data:,"
  ELSE "data:image/jpeg;base64," \o "/9j/" \o file.bytes

\* How the promise of processImageForExport(file) settles
\* (fileUtils.ts:81-133).
processImageForExport(file, ev) ==
  CASE ev = "encoded"     -> [settled |-> "resolved", value |-> ToDataURL(file, ev)]
    [] ev = "blankCanvas" -> [settled |-> "resolved", value |-> ToDataURL(file, ev)]
    [] ev = "readError"   -> [settled |-> "resolved", value |-> ""]
    [] ev = "imageError"  -> [settled |-> "resolved", value |-> ""]
    [] ev = "noContext"   -> [settled |-> "resolved", value |-> ""]
    [] OTHER              -> [settled |-> "rejected", value |-> Undefined]

(***************************************************************************)
(* Snapshot serializer: serializeTree (fileUtils.ts:135-162).              *)
(*                                                                         *)
(* The asynchronous recursion is kept as its call stack: a frame is one    *)
(* activation of serializeTree, with the node it serializes and the        *)
(* position in node.children its for-loop has reached.  The walk runs      *)
(* until it awaits a transcode and is resumed when the promise settles.    *)
(* A SerializedNode is kept at the position of the node it was made from.  *)
(***************************************************************************)
\* A position of the output no activation has reached yet.
NotSerialized ==
  [id |-> Undefined, name |-> Undefined, path |-> Undefined, type |-> Undefined,
   children |-> <<>>, isDeleted |-> Undefined, thumbnailData |-> Undefined,
   made |-> FALSE]

\* A slip that leaves the soft-delete flag out of the serialized node.
SerializedOf_NoFlag(node) ==
  [id |-> node.id, name |-> node.name, path |-> node.path, type |-> node.type,
   children |-> <<>>, isDeleted |-> Undefined, thumbnailData |-> Undefined,
   made |-> TRUE]

\* const serialized: SerializedNode = {...} (fileUtils.ts:136-143).
SerializedOf(node) ==
  [id |-> node.id, name |-> node.name, path |-> node.path, type |-> node.type,
   children |-> <<>>, isDeleted |-> node.isDeleted, thumbnailData |-> Undefined,
   made |-> TRUE]

\* node.type === 'file' && node.file (fileUtils.ts:145).
NeedsTranscode(node) == node.type = "file" /\ node.file # NoFile

\* The walk before serializeTree(root) is called.  out: the serialized
\* nodes; awaiting: the node whose transcode is in flight (0: none);
\* calls: the nodes processImageForExport was called for; progress: the
\* nodes onProgress was called for; result: 0 until the outermost
\* activation returns, then the position of its serialized node.
NewWalk(nodes) ==
  [stack |-> <<>>, out |-> [i \in DOMAIN nodes |-> NotSerialized],
   awaiting |-> 0, calls |-> <<>>, progress |-> <<>>, result |-> 0]

\* The for-loop over node.children of the top activation and the returns
\* it leads to (fileUtils.ts:154-161), up to the next await of a transcode.
RECURSIVE RunWalk(_, _)
\* serializeTree(node) is entered (fileUtils.ts:136-147).
EnterNode(w, nodes, n) ==
  LET w1 == [w EXCEPT !.stack = Append(@, [node |-> n, next |-> 1]),
                      !.out[n] = SerializedOf(nodes[n])]
  IN  IF NeedsTranscode(nodes[n])
      THEN [w1 EXCEPT !.awaiting = n, !.calls = Append(@, n)]
      ELSE RunWalk(w1, nodes)

\* A slip that walks node.children from the last child to the first.
RunWalk_Reverse(w, nodes) ==
  LET top == w.stack[Len(w.stack)]
      kids == nodes[top.node].children
  IN  IF top.next <= Len(kids)
      THEN EnterNode([w EXCEPT !.stack[Len(w.stack)].next = top.next + 1],
                     nodes, kids[Len(kids) + 1 - top.next])
      ELSE IF Len(w.stack) = 1
        THEN [w EXCEPT !.stack = <<>>, !.result = top.node]
        ELSE LET caller == w.stack[Len(w.stack) - 1].node
             IN  RunWalk([w EXCEPT !.stack = SubSeq(@, 1, Len(@) - 1),
                                   !.out[caller].children = Append(@, top.node)],
                         nodes)

RunWalk(w, nodes) ==
  LET top == w.stack[Len(w.stack)]
      kids == nodes[top.node].children
  IN  IF top.next <= Len(kids)
      THEN EnterNode([w EXCEPT !.stack[Len(w.stack)].next = top.next + 1],
                     nodes, kids[top.next])
      ELSE \* return serialized
        IF Len(w.stack) = 1
        THEN [w EXCEPT !.stack = <<>>, !.result = top.node]
        ELSE LET caller == w.stack[Len(w.stack) - 1].node
             IN  RunWalk([w EXCEPT !.stack = SubSeq(@, 1, Len(@) - 1),
                                   !.out[caller].children = Append(@, top.node)],
                         nodes)

\* await serializeTree(rootNode, onProgress) is started.
StartWalk(nodes) == EnterNode(NewWalk(nodes), nodes, 1)

\* The awaited transcode settles: the payload is stored unless the promise
\* was rejected, onProgress is called, and the walk goes on
\* (fileUtils.ts:146-159).
ResumeWalk(w, nodes, settle) ==
  LET n == w.awaiting
      w1 == [w EXCEPT !.awaiting = 0,
                      !.out[n].thumbnailData =
                         IF settle.settled = "resolved" THEN settle.value ELSE @,
                      !.progress = Append(@, n)]
  IN  RunWalk(w1, nodes)

\* serializeTree(root) run to its end, the k-th transcode meeting evs[k].
RECURSIVE FinishWalk(_, _, _)
FinishWalk(w, nodes, evs) ==
  IF w.awaiting = 0 THEN w
  ELSE FinishWalk(ResumeWalk(w, nodes,
                     processImageForExport(nodes[w.awaiting].file, Head(evs))),
                  nodes, Tail(evs))

serializeTree(nodes, evs) == FinishWalk(StartWalk(nodes), nodes, evs)

(***************************************************************************)
(* The snapshot file: JSON.stringify and JSON.parse.                       *)
(*                                                                         *)
(* A JSON object is its set of keys and their values; the objects of a     *)
(* document form an arena like the nodes of a tree, `children' holding     *)
(* positions (0 for a null element).  A text is either not JSON at all or  *)
(* the JSON value at position root (0: the value null; an object without   *)
(* keys also stands for a number or a string, whose properties all read    *)
(* undefined).                                                             *)
(***************************************************************************)
NodeKeys == {"id", "name", "path", "type", "isDeleted", "thumbnailData"}

\* JSON.stringify of one SerializedNode: a key whose value is undefined is
\* left out, `children' is always an array.
JsonOf(sn) ==
  [keys |-> {k \in NodeKeys : sn[k] # Undefined} \cup {"children"},
   id |-> sn.id, name |-> sn.name, path |-> sn.path, type |-> sn.type,
   isDeleted |-> sn.isDeleted, thumbnailData |-> sn.thumbnailData,
   children |-> sn.children, childrenIsArray |-> TRUE,
   childrenTruthy |-> TRUE]

\* JSON.stringify(serializedRoot) (Gallery.tsx:182).
JsonStringify(out, root) ==
  [kind |-> "json", root |-> root, nodes |-> [i \in DOMAIN out |-> JsonOf(out[i])]]

\* JSON.parse(json) (temp_App.tsx:97): throws on a text that is not JSON.
JsonParse(text) ==
  [threw |-> text.kind # "json", root |-> text.root, nodes |-> text.nodes]

\* node[k] for a parsed object: undefined when the key is absent.
Get(obj, k) == IF k \in obj.keys THEN obj[k] ELSE Undefined

(***************************************************************************)
(* Snapshot deserializer: base64ToBlob and deserializeTree                 *)
(* (fileUtils.ts:164-207).                                                 *)
(***************************************************************************)
Base64Alphabet ==
  {"A","B","C","D","E","F","G","H","I","J","K","L","M","N","O","P","Q","R","S",
   "T","U","V","W","X","Y","Z","a","b","c","d","e","f","g","h","i","j","k","l",
   "m","n","o","p","q","r","s","t","u","v","w","x","y","z","0","1","2","3","4",
   "5","6","7","8","9","+","/"}

\* Position of the first occurrence of the character c in s, 0 if none.
RECURSIVE IndexFrom(_, _, _)
IndexFrom(s, c, i) ==
  IF i > Len(s) THEN 0
  ELSE IF SubSeq(s, i, i) = c THEN i ELSE IndexFrom(s, c, i + 1)

IndexOf(s, c) == IndexFrom(s, c, 1)

\* s without its ASCII whitespace (tab, line feed, form feed, carriage
\* return, space), which atob removes before it decodes.
AsciiWhitespace == {"\t", "\n", "\f", "\r", " "}

RECURSIVE RemoveWhitespace(_)
RemoveWhitespace(s) ==
  IF s = "" THEN ""
  ELSE IF SubSeq(s, 1, 1) \in AsciiWhitespace
       THEN RemoveWhitespace(SubSeq(s, 2, Len(s)))
       ELSE SubSeq(s, 1, 1) \o RemoveWhitespace(SubSeq(s, 2, Len(s)))

\* s without its trailing padding when its length is a multiple of four.
StripPadding(s) ==
  IF Len(s) % 4 # 0 \/ Len(s) = 0 THEN s
  ELSE IF SubSeq(s, Len(s) - 1, Len(s)) = "==" THEN SubSeq(s, 1, Len(s) - 2)
  ELSE IF SubSeq(s, Len(s), Len(s)) = "=" THEN SubSeq(s, 1, Len(s) - 1)
  ELSE s

\* The base64 digits atob decodes: s without whitespace and padding.
AtobDigits(s) == StripPadding(RemoveWhitespace(s))

\* atob(s) succeeds: the digits of s are base64 characters only and their
\* number is not 1 modulo 4.
AtobAccepts(s) ==
  LET t == AtobDigits(s)
  IN  /\ Len(t) % 4 # 1
      /\ \A i \in 1..Len(t) : SubSeq(t, i, i) \in Base64Alphabet

\* The characters the `.' of a regular expression does not match.
LineTerminators == {"\n", "\r"}

\* arr[0].match(/:(.*?);/)?.[1]: the text between the first colon that is
\* followed by a semicolon on the same line and that semicolon, undefined
\* without such a pair.
RECURSIVE MimeFrom(_, _)
MimeFrom(s, i) ==
  IF i > Len(s) THEN Undefined
  ELSE IF SubSeq(s, i, i) # ":" THEN MimeFrom(s, i + 1)
  ELSE LET j == IndexFrom(s, ";", i + 1)
       IN  IF j # 0 /\ \A k \in (i + 1)..(j - 1) : SubSeq(s, k, k) \notin LineTerminators
           THEN SubSeq(s, i + 1, j - 1)
           ELSE MimeFrom(s, i + 1)

MimeOf(s) == MimeFrom(s, 1)

\* The type a Blob or File takes from its options: the empty string for
\* undefined and for a string with a character outside U+0020..U+007E,
\* otherwise the string in lower case.  (The grave accent cannot be written
\* in a string here; no text of the model holds one.)
PrintableAscii ==
  " !\"#$%&'()*+,-./0123456789:;<=>?@ABCDEFGHIJKLMNOPQRSTUVWXYZ[\\]^_abcdefghijklmnopqrstuvwxyz{|}~"

ToLowerChar(c) ==
  LET i == IndexOf("ABCDEFGHIJKLMNOPQRSTUVWXYZ", c)
  IN  IF i = 0 THEN c ELSE SubSeq("abcdefghijklmnopqrstuvwxyz", i, i)

RECURSIVE ToLower(_)
ToLower(s) ==
  IF s = "" THEN ""
  ELSE ToLowerChar(SubSeq(s, 1, 1)) \o ToLower(SubSeq(s, 2, Len(s)))

BlobType(t) ==
  IF t = Undefined THEN ""
  ELSE IF \A i \in 1..Len(t) : IndexOf(PrintableAscii, SubSeq(t, i, i)) # 0
       THEN ToLower(t)
       ELSE ""

\* base64ToBlob(base64) (fileUtils.ts:164-174).  atob(arr[1]) throws when
\* there is no second part (atob("undefined")) or the part is no base64;
\* otherwise the blob has one byte per six bits of the part.
base64ToBlob(base64) ==
  LET arr == Split(base64, ",")
      mime == MimeOf(arr[1])
  IN  IF Len(arr) < 2 \/ ~AtobAccepts(arr[2])
      THEN [threw |-> TRUE, type |-> "", size |-> 0, data |-> ""]
      ELSE [threw |-> FALSE,
            type |-> BlobType(mime),
            size |-> (Len(AtobDigits(arr[2])) * 6) \div 8,
            data |-> AtobDigits(arr[2])]

\* new File([blob], name, { type: blob.type }) (fileUtils.ts:196): the name
\* is converted to a string.
FileOfBlob(blob, name) ==
  [name |-> IF name = Undefined THEN "undefined" ELSE name,
   webkitRelativePath |-> "", type |-> BlobType(blob.type),
   size |-> blob.size, bytes |-> blob.data]

\* deserializeTree(node, allImagesAccumulator, parent) (fileUtils.ts:176-207)
\* for the object at position i of doc.  st = [nodes, acc, nextUrl, threw,
\* ret]: the arena of restored nodes in order of creation, the accumulator,
\* the next handle of URL.createObjectURL, whether an exception is on its
\* way out, and the position of the node returned.
RECURSIVE deserializeNode(_, _, _, _)
RECURSIVE DeserializeChildren(_, _, _, _, _)
\* A slip that pushes every file node onto the accumulator, with a payload
\* or without.
deserializeNode_AllFiles(doc, i, parent, st) ==
  IF i = 0 THEN [st EXCEPT !.threw = TRUE]
  ELSE
    LET node == doc[i]
        k == Len(st.nodes) + 1
        restoredNode ==
          [id |-> Get(node, "id"), name |-> Get(node, "name"),
           path |-> Get(node, "path"), type |-> Get(node, "type"),
           children |-> <<>>, parent |-> parent,
           isDeleted |-> OrFalse(Get(node, "isDeleted")),
           file |-> NoFile, url |-> 0]
        hasImage == Get(node, "type") = "file"
                      /\ TruthyStr(Get(node, "thumbnailData"))
        blob == base64ToBlob(Get(node, "thumbnailData"))
    IN  IF hasImage /\ blob.threw THEN [st EXCEPT !.threw = TRUE]
        ELSE
          LET st1 ==
                IF hasImage
                THEN [st EXCEPT
                        !.nodes = Append(@, [restoredNode EXCEPT
                                    !.url = st.nextUrl,
                                    !.file = FileOfBlob(blob, Get(node, "name"))]),
                        !.acc = Append(@, k),
                        !.nextUrl = @ + 1,
                        !.ret = k]
                ELSE IF Get(node, "type") = "file"
                THEN [st EXCEPT !.nodes = Append(@, restoredNode),
                                !.acc = Append(@, k), !.ret = k]
                ELSE [st EXCEPT !.nodes = Append(@, restoredNode), !.ret = k]
          IN  IF "children" \in node.keys /\ node.childrenTruthy
              THEN IF node.childrenIsArray
                   THEN DeserializeChildren(doc, node.children, 1, k, st1)
                   ELSE [st1 EXCEPT !.threw = TRUE]
              ELSE st1

deserializeNode(doc, i, parent, st) ==
  IF i = 0 THEN [st EXCEPT !.threw = TRUE]
  ELSE
    LET node == doc[i]
        k == Len(st.nodes) + 1
        restoredNode ==
          [id |-> Get(node, "id"), name |-> Get(node, "name"),
           path |-> Get(node, "path"), type |-> Get(node, "type"),
           children |-> <<>>, parent |-> parent,
           isDeleted |-> OrFalse(Get(node, "isDeleted")),
           file |-> NoFile, url |-> 0]
        hasImage == Get(node, "type") = "file"
                      /\ TruthyStr(Get(node, "thumbnailData"))
        blob == base64ToBlob(Get(node, "thumbnailData"))
    IN  IF hasImage /\ blob.threw THEN [st EXCEPT !.threw = TRUE]
        ELSE
          LET st1 ==
                IF hasImage
                THEN [st EXCEPT
                        !.nodes = Append(@, [restoredNode EXCEPT
                                    !.url = st.nextUrl,
                                    !.file = FileOfBlob(blob, Get(node, "name"))]),
                        !.acc = Append(@, k),
                        !.nextUrl = @ + 1,
                        !.ret = k]
                ELSE [st EXCEPT !.nodes = Append(@, restoredNode), !.ret = k]
          IN  IF "children" \in node.keys /\ node.childrenTruthy
              THEN IF node.childrenIsArray
                   THEN DeserializeChildren(doc, node.children, 1, k, st1)
                   ELSE [st1 EXCEPT !.threw = TRUE]
              ELSE st1

\* node.children.forEach(child => restoredNode.children.push(
\* deserializeTree(child, allImagesAccumulator, restoredNode))) from the
\* c-th child on (fileUtils.ts:200-204); k is restoredNode.
DeserializeChildren(doc, kids, c, k, st) ==
  IF c > Len(kids) THEN [st EXCEPT !.ret = k]
  ELSE
    LET st1 == deserializeNode(doc, kids[c], k, st)
    IN  IF st1.threw THEN st1
        ELSE DeserializeChildren(doc, kids, c + 1, k,
               [st1 EXCEPT !.nodes[k].children = Append(@, st1.ret)])

\* deserializeTree(serializedRoot, allImagesList) (temp_App.tsx:98-99).
deserializeTree(value, firstUrl) ==
  deserializeNode(value.nodes, value.root, 0,
                  [nodes |-> <<>>, acc |-> <<>>, nextUrl |-> firstUrl,
                   threw |-> FALSE, ret |-> 0])

\* handleToggleDelete(node): node.isDeleted = !node.isDeleted
\* (temp_App.tsx:139-142).
ToggleNode(nodes, n) == [nodes EXCEPT ![n].isDeleted = JsNot(@)]

\* Edge lengths images are drawn from: around the target, small, and large
\* ones, among them sizes whose scaled length falls on a half.
EdgePool == (1022..1027) \cup {1, 2, 512, 1000, 1365, 1536, 2047, 2048, 2049,
                               3000, 4096, 6144, 6147,
                               100352, 137249, 139699, 139797, 140091}

ScaleIdle == [pc |-> "idle", width |-> 0, height |-> 0, outWidth |-> 0, outHeight |-> 0]

\* Values of the parts of the state that have nothing in them yet.
NoTree == [nodes |-> <<>>, allImages |-> <<>>, nextUrl |-> 1]

NoText == [kind |-> "none", root |-> 0, nodes |-> <<>>]

NoRestored == [nodes |-> <<>>, acc |-> <<>>, nextUrl |-> 1, threw |-> FALSE, ret |-> 0]

CodecIdle ==
  [pc |-> "idle", files |-> <<>>, built |-> NoTree, tree |-> NoTree,
   walk |-> NewWalk(<<>>), events |-> <<>>,
   text |-> NoText, restored |-> NoRestored,
   rewalk |-> NewWalk(<<>>), revents |-> <<>>]

(***************************************************************************)
(* The workspace: App (temp_App.tsx) with the Gallery, the Lightbox and    *)
(* the ShareModal it renders.                                              *)
(*                                                                         *)
(* A FileNode held in React state is a reference [t, n]: node n of the     *)
(* arena trees[t].  An object URL is a number, handed out in order of      *)
(* creation; revoked has one counter per URL created so far.               *)
(***************************************************************************)
Null == [t |-> 0, n |-> 0]

Ref(t, n) == [t |-> t, n |-> n]

NodeOf(ref) == trees[ref.t][ref.n]

\* useState<FileNode[]>([]) and setAllImages([]): a list of no tree.
EmptyImages == [t |-> 0, list |-> <<>>]

ZeroStats == [totalFiles |-> 0, totalFolders |-> 0, totalSize |-> 0]

\* The FileLists the folder picker delivers.
UploadLists == {PhotosList, DroppingList}

\* JSON objects of snapshot files.
JsonNode(id, name, path, type, kids) ==
  [keys |-> {"id", "name", "path", "type", "children"},
   id |-> id, name |-> name, path |-> path, type |-> type,
   isDeleted |-> Undefined, thumbnailData |-> Undefined,
   children |-> kids, childrenIsArray |-> TRUE, childrenTruthy |-> TRUE]

WithKey(obj, k, v) == [obj EXCEPT !.keys = @ \cup {k}, ![k] = v]

WithoutKey(obj, k) == [obj EXCEPT !.keys = @ \ {k}, ![k] = Undefined]

JsonText(nodes) == [kind |-> "json", root |-> 1, nodes |-> nodes]

\* A file that is no JSON.
GarbageText == [kind |-> "garbage", root |-> 0, nodes |-> <<>>]

\* The JSON text `null'.
NullText == [kind |-> "json", root |-> 0, nodes |-> <<>>]

\* The JSON text `{}'.
EmptyObjectText ==
  JsonText(<< [JsonNode(Undefined, Undefined, Undefined, Undefined, <<>>)
                 EXCEPT !.keys = {}] >>)

\* A root object without `children'.
NoChildrenText ==
  JsonText(<< [JsonNode("root", "Root", "", "folder", <<>>)
                 EXCEPT !.keys = @ \ {"children"}] >>)

\* A root object whose `children' is a number: truthy and no array.
BadChildrenText ==
  JsonText(<< [JsonNode("root", "Root", "", "folder", <<>>)
                 EXCEPT !.childrenIsArray = FALSE] >>)

\* A root object whose `children' is null.
NullChildrenText ==
  JsonText(<< [JsonNode("root", "Root", "", "folder", <<>>)
                 EXCEPT !.childrenIsArray = FALSE, !.childrenTruthy = FALSE] >>)

\* A snapshot written by hand: a file object without name whose payload
\* has an upper-case media type and a blank among its base64 digits.
HandMadeText ==
  JsonText(<< JsonNode("root", "Root", "", "folder", <<2>>),
              WithKey(WithoutKey(JsonNode("/f.png", "f.png", "f.png", "file", <<>>),
                                 "name"),
                      "thumbnailData", "data:IMAGE/PNG;base64,YW Fh") >>)

\* A snapshot as the serializer writes it: a folder with a transcoded file,
\* soft-deleted, and a file whose transcode had failed.
SnapshotText ==
  JsonText(<< JsonNode("root", "Root", "", "folder", <<2>>),
              JsonNode("/S", "S", "S", "folder", <<3, 4>>),
              WithKey(WithKey(JsonNode("S/p.png", "p.png", "S/p.png", "file", <<>>),
                              "isDeleted", JsTrue),
                      "thumbnailData", "data:image/jpeg;base64,/9j/cHBw"),
              WithKey(WithKey(JsonNode("S/q.png", "q.png", "S/q.png", "file", <<>>),
                              "isDeleted", JsFalse),
                      "thumbnailData", "") >>)

\* A snapshot written by hand whose file has the number 1 for isDeleted
\* and no payload.
NumberFlagText ==
  JsonText(<< JsonNode("root", "Root", "", "folder", <<2>>),
              WithKey(JsonNode("/n.png", "n.png", "n.png", "file", <<>>),
                      "isDeleted", JsOne) >>)

\* A snapshot whose second payload is damaged.
BrokenPayloadText ==
  JsonText(<< JsonNode("root", "Root", "", "folder", <<2, 3>>),
              WithKey(JsonNode("/p.png", "p.png", "p.png", "file", <<>>),
                      "thumbnailData", "data:image/jpeg;base64,/9j/cHBw"),
              WithKey(JsonNode("/q.png", "q.png", "q.png", "file", <<>>),
                      "thumbnailData", "damaged") >>)

\* The files the snapshot picker delivers.
ImportTexts == {GarbageText, NullText, EmptyObjectText, NoChildrenText,
                BadChildrenText, NullChildrenText, SnapshotText,
                BrokenPayloadText, HandMadeText, NumberFlagText}

\* The snapshot files imported while the workspace is browsed: one that is
\* well formed, two that are adopted though they are not, and one that is
\* rejected after a handle has been created for it.
WorkspaceTexts == {SnapshotText, EmptyObjectText, BrokenPayloadText,
                   NumberFlagText}

\* The state hooks reader.onload sets when it has restored a tree.
ImportHooks == {"rootNode", "currentNode", "allImages", "stats"}

\* No import is under way.  While one is, state is "reading" until the
\* FileReader has fired, and "queued" from the return of reader.onload to
\* the render that applies its setters: root, images and stats are the
\* values it has passed to setRootNode and setCurrentNode, to setAllImages
\* and to setStats, and hooks are those of its setters no later update has
\* been queued behind.
NoReader == [state |-> "idle", text |-> NullText, root |-> Null,
             images |-> EmptyImages, stats |-> ZeroStats, hooks |-> {}]

\* reader after a handler has called the setters of hooks: an update queued
\* by reader.onload and not rendered yet is applied before the handler's
\* and so loses to it.
Overridden(hooks) ==
  IF reader.state = "queued" THEN [reader EXCEPT !.hooks = @ \ hooks] ELSE reader

\* signal is what the last reader.onload alerted, adopted whether the tree
\* of the last import became rootNode, rejected the number of texts that
\* made reader.onload throw, and dropped the trees reader.onload restored
\* that never became rootNode.
NothingImported == [signal |-> "", adopted |-> FALSE, rejected |-> 0,
                    dropped |-> {}]

\* Folders picked and snapshot files read so far.
Loads == Len(trees) + imported.rejected

\* No update of the ShareModal waits for a render.  hooks are the hooks
\* that have updates waiting, step, progress and downloadUrl the value
\* passed to the last of them (0 for null), and from the exports whose
\* callbacks have called a setter since the last render of the queue.
NoneQueued == [hooks |-> {}, step |-> "idle", progress |-> 0, downloadUrl |-> 0,
               from |-> {}]

\* useState('idle'), useState(0), useState(null) and nothing queued.
ModalIdle == [step |-> "idle", progress |-> 0, downloadUrl |-> 0,
              queued |-> NoneQueued]

\* A setter of the ShareModal called outside the handlers of React, by an
\* effect, the callback of a timer or the continuation of a promise: the
\* update is queued behind those waiting for the hook and shows with the
\* next render of the queue.
Queue(m, hook, v) ==
  [m EXCEPT !.queued.hooks = @ \cup {hook}, !.queued[hook] = v]

\* A setter of the ShareModal called by a handler of React: the value is
\* rendered at once, and the updates that wait for the hook, applied
\* before it when the queue is rendered, lose to it.
SetNow(m, hook, v) ==
  [m EXCEPT ![hook] = v,
            !.queued.hooks = @ \ {hook}, !.queued[hook] = NoneQueued[hook]]

\* The ShareModal once the updates queued for it have been rendered.
Rendered(m) ==
  [step |-> IF "step" \in m.queued.hooks THEN m.queued.step ELSE m.step,
   progress |-> IF "progress" \in m.queued.hooks THEN m.queued.progress
                ELSE m.progress,
   downloadUrl |-> IF "downloadUrl" \in m.queued.hooks THEN m.queued.downloadUrl
                   ELSE m.downloadUrl,
   queued |-> NoneQueued]

\* No effect waits to be run.  After a render that was not caused by a
\* handler React runs the effects in a task of their own: pending from the
\* commit of such a render that has changed allImages until then, old being
\* the list the cleanup of the allImages effect belongs to.  Until then the
\* keydown listener of the Lightbox (part_001:15-23) is the one the effects
\* of the render before have registered: its handlers see allImages and
\* currentNode as that render did, old and current.
NoPassive == [pending |-> FALSE, old |-> EmptyImages, current |-> Null]

AppInit ==
  /\ trees = <<>>
  /\ revoked = <<>>
  /\ rootNode = Null
  /\ currentNode = Null
  /\ allImages = EmptyImages
  /\ viewMode = "HIERARCHY"
  /\ lightboxNode = Null
  /\ isShareModalOpen = FALSE
  /\ isImporting = FALSE
  /\ stats = ZeroStats
  /\ reader = NoReader
  /\ imported = NothingImported
  /\ modal = ModalIdle
  /\ exports = <<>>
  /\ passive = NoPassive

\* countFolders(node) (temp_App.tsx:66-71, 102-107): the folders reached
\* from node through folders.
RECURSIVE CountFolders(_, _)
RECURSIVE CountFoldersIn(_, _, _)
CountFolders(nodes, i) ==
  IF nodes[i].type = "folder"
  THEN 1 + CountFoldersIn(nodes, nodes[i].children, 1)
  ELSE 0

CountFoldersIn(nodes, kids, c) ==
  IF c > Len(kids) THEN 0
  ELSE CountFolders(nodes, kids[c]) + CountFoldersIn(nodes, kids, c + 1)

\* Array.from(files).forEach(f => size += f.size) (temp_App.tsx:73).
RECURSIVE SumSizes(_)
SumSizes(files) ==
  IF files = <<>> THEN 0 ELSE Head(files).size + SumSizes(Tail(files))

\* One counter per object URL up to the one created last.
GrowTo(rev, n) == [u \in 1..n |-> IF u <= Len(rev) THEN rev[u] ELSE 0]

\* A slip that releases nothing when the list is emptied.
CleanupObjectUrls_Skip(rev, old, new) ==
  IF new.list = <<>> THEN rev
  ELSE [u \in DOMAIN rev |->
          rev[u] + Cardinality({ i \in DOMAIN old.list :
                                   old.t # 0 /\ trees[old.t][old.list[i]].url = u })]

\* The cleanup of the allImages effect (temp_App.tsx:29-40), run when
\* allImages has been set to another array: every node of the old list
\* that has a url gets it revoked.  (Every url is a blob: URL.)
CleanupObjectUrls(rev, old, new) ==
  [u \in DOMAIN rev |->
     rev[u] + Cardinality({ i \in DOMAIN old.list :
                              old.t # 0 /\ trees[old.t][old.list[i]].url = u })]

\* revoked once the cleanup that waits has run.
Flushed ==
  IF passive.pending THEN CleanupObjectUrls(revoked, passive.old, allImages)
  ELSE revoked

\* React runs the effects that wait before it renders again, so every
\* handler that sets state has the cleanup run first.
FlushPassiveEffects ==
  /\ revoked' = Flushed
  /\ passive' = NoPassive

\* The lightbox or the share dialog covers the page (both are fixed
\* full-screen layers above it), so nothing below can be clicked.  The
\* tiles of the Gallery and the rows of the Sidebar are reached by the mouse
\* only; the buttons of the page stay in the tab order and are pressed from
\* the keyboard under either layer.
LightboxShown == lightboxNode # Null /\ NodeOf(lightboxNode).url # 0

Covered == isShareModalOpen \/ LightboxShown

\* handleUpload (temp_App.tsx:52-86).  The folder input is rendered on the
\* landing page only (temp_App.tsx:215, 257).  The render a handler causes
\* runs its effects with its commit, the cleanup of the old allImages
\* included.
handleUpload(files) ==
  /\ rootNode = Null
  /\ Loads < MaxTrees
  /\ Len(files) # 0
  /\ LET parsed == parseFilesToTree(files, Len(revoked) + 1)
         t == Len(trees) + 1
         images == [t |-> t, list |-> parsed.allImages]
         folders == CountFolders(parsed.nodes, 1)
     IN  /\ trees' = Append(trees, parsed.nodes)
         /\ rootNode' = Ref(t, 1)
         /\ currentNode' = Ref(t, 1)
         /\ allImages' = images
         /\ stats' = [totalFiles |-> Len(parsed.allImages),
                      totalFolders |-> folders - 1,
                      totalSize |-> SumSizes(files)]
         /\ revoked' = CleanupObjectUrls(GrowTo(Flushed, parsed.nextUrl - 1),
                                         allImages, images)
  /\ passive' = NoPassive
  /\ reader' = Overridden(ImportHooks)
  /\ UNCHANGED <<viewMode, lightboxNode, isShareModalOpen, isImporting,
                 imported, modal, exports>>
  /\ UNCHANGED <<codec, scale>>

\* handleReset, the confirmation accepted (temp_App.tsx:42-50).  The button
\* is rendered with the dashboard only.
handleReset ==
  /\ rootNode # Null
  /\ rootNode' = Null
  /\ currentNode' = Null
  /\ allImages' = EmptyImages
  /\ stats' = ZeroStats
  /\ viewMode' = "HIERARCHY"
  /\ revoked' = CleanupObjectUrls(Flushed, allImages, EmptyImages)
  /\ passive' = NoPassive
  /\ reader' = Overridden(ImportHooks)
  /\ UNCHANGED <<trees, lightboxNode, isShareModalOpen, isImporting,
                 imported, modal, exports>>
  /\ UNCHANGED <<codec, scale>>

\* handleImport up to reader.readAsText(file) (temp_App.tsx:88-93, 127).
\* The import button is rendered on the landing page only and is disabled
\* while isImporting (temp_App.tsx:243-245).
handleImport(text) ==
  /\ rootNode = Null
  /\ ~isImporting
  /\ reader.state = "idle"
  /\ Loads < MaxTrees
  /\ isImporting' = TRUE
  /\ reader' = [NoReader EXCEPT !.state = "reading", !.text = text]
  /\ UNCHANGED <<trees, rootNode, currentNode, allImages, viewMode,
                 lightboxNode, isShareModalOpen, stats, imported, modal, exports>>
  /\ FlushPassiveEffects
  /\ UNCHANGED <<codec, scale>>

\* reader.onload of handleImport (temp_App.tsx:94-126).  The callback runs
\* outside the handlers of React: its setters are queued and applied by a
\* render of their own, RenderQueued, which follows at once or after other
\* events that were waiting.
ReaderOnLoad ==
  /\ reader.state = "reading"
  /\ Loads < MaxTrees
  /\ LET parsed == JsonParse(reader.text)
         restored == IF parsed.threw
                     THEN [NoRestored EXCEPT !.threw = TRUE,
                                             !.nextUrl = Len(revoked) + 1]
                     ELSE deserializeTree(parsed, Len(revoked) + 1)
         t == Len(trees) + 1
     IN  /\ revoked' = GrowTo(revoked, restored.nextUrl - 1)
         /\ IF restored.threw
            THEN \* catch: alert("Invalid snapshot file.")
                 /\ imported' = [imported EXCEPT
                                   !.signal = "Invalid snapshot file.",
                                   !.adopted = FALSE,
                                   !.rejected = @ + 1]
                 /\ reader' = [NoReader EXCEPT !.state = "queued"]
                 /\ UNCHANGED trees
            ELSE /\ trees' = Append(trees, restored.nodes)
                 /\ imported' = [imported EXCEPT !.signal = "", !.adopted = FALSE]
                 /\ reader' = [NoReader EXCEPT
                                 !.state = "queued",
                                 !.root = Ref(t, restored.ret),
                                 !.images = [t |-> t, list |-> restored.acc],
                                 !.stats =
                                    [totalFiles |-> Len(restored.acc),
                                     totalFolders |->
                                        CountFolders(restored.nodes, restored.ret) - 1,
                                     totalSize |-> 0],
                                 !.hooks = ImportHooks]
  /\ UNCHANGED <<rootNode, currentNode, allImages, viewMode, lightboxNode,
                 isShareModalOpen, isImporting, stats, modal, exports>>
  /\ UNCHANGED <<codec, scale, passive>>

\* The render that applies the updates queued outside the handlers of
\* React: the setters of reader.onload (temp_App.tsx:107-115, 121) and
\* those of the ShareModal's effect and of its exports (Gallery.tsx:159-165,
\* 176-190).  It runs in a task of its own, after the events that were
\* waiting.  The cleanup of the allImages effect, due when the list has
\* become another one, is left to a later task.
RenderQueued ==
  /\ reader.state = "queued" \/ modal.queued.hooks # {}
  /\ IF reader.state = "queued"
     THEN /\ rootNode' = IF "rootNode" \in reader.hooks THEN reader.root
                         ELSE rootNode
          /\ currentNode' = IF "currentNode" \in reader.hooks THEN reader.root
                            ELSE currentNode
          /\ allImages' = IF "allImages" \in reader.hooks THEN reader.images
                          ELSE allImages
          /\ stats' = IF "stats" \in reader.hooks THEN reader.stats ELSE stats
          /\ isImporting' = FALSE
          /\ imported' = [imported EXCEPT
                            !.adopted = "rootNode" \in reader.hooks,
                            !.dropped = IF reader.root = Null
                                             \/ "rootNode" \in reader.hooks
                                        THEN @ ELSE @ \cup {reader.root.t}]
          /\ reader' = NoReader
     ELSE UNCHANGED <<rootNode, currentNode, allImages, stats, isImporting,
                      imported, reader>>
  /\ modal' = Rendered(modal)
  /\ revoked' = Flushed
  /\ passive' = IF reader.state = "queued" /\ "allImages" \in reader.hooks
                THEN [pending |-> TRUE, old |-> allImages,
                      current |-> currentNode]
                ELSE NoPassive
  /\ UNCHANGED <<trees, viewMode, lightboxNode, isShareModalOpen, exports>>
  /\ UNCHANGED <<codec, scale>>

\* The task that runs the effects of the render of the queue: the cleanup
\* of the allImages effect (temp_App.tsx:29-40) with the list it replaced.
RunPassiveEffects ==
  /\ passive.pending
  /\ FlushPassiveEffects
  /\ UNCHANGED <<trees, rootNode, currentNode, allImages, viewMode,
                 lightboxNode, isShareModalOpen, isImporting, stats, reader,
                 imported, modal, exports>>
  /\ UNCHANGED <<codec, scale>>

\* The read fails; handleImport sets no reader.onerror, so nothing runs.
ReaderOnError ==
  /\ reader.state = "reading"
  /\ reader' = NoReader
  /\ UNCHANGED <<trees, revoked, rootNode, currentNode, allImages, viewMode,
                 lightboxNode, isShareModalOpen, isImporting, stats, imported,
                 modal, exports>>
  /\ UNCHANGED <<codec, scale, passive>>

\* galleryNodes (temp_App.tsx:144-149) of a render with the given
\* viewMode, allImages and currentNode.
GalleryOf(mode, images, current) ==
  IF mode = "ALL_PHOTOS"
  THEN [i \in DOMAIN images.list |-> Ref(images.t, images.list[i])]
  ELSE IF current # Null
       THEN [i \in DOMAIN NodeOf(current).children |->
               Ref(current.t, NodeOf(current).children[i])]
       ELSE <<>>

\* galleryNodes of the render on the screen.
GalleryNodes == GalleryOf(viewMode, allImages, currentNode)

\* galleryNodes as the keydown listener of the Lightbox has it: that of the
\* render on the screen once its effects have run, and until then that of
\* the render before, which had the same viewMode.
ListenerGalleryNodes ==
  IF passive.pending THEN GalleryOf(viewMode, passive.old, passive.current)
  ELSE GalleryNodes

\* The nodes the Sidebar's FolderTree renders below node i
\* (temp_App.tsx:343-401): i unless it is a file, and its folder children.
RECURSIVE FolderTreeNodes(_, _)
FolderTreeNodes(nodes, i) ==
  IF nodes[i].type = "file" THEN {}
  ELSE {i} \cup UNION { FolderTreeNodes(nodes, nodes[i].children[c]) :
                          c \in { d \in DOMAIN nodes[i].children :
                                    nodes[nodes[i].children[d]].type = "folder" } }

\* handleSelectNode(node) (temp_App.tsx:130-133), from a click on a folder
\* of the Sidebar or on a folder tile of the Gallery (Gallery.tsx:65).
handleSelectNode(ref) ==
  /\ rootNode # Null
  /\ ~Covered
  /\ \/ ref.t = rootNode.t /\ ref.n \in FolderTreeNodes(trees[rootNode.t], rootNode.n)
     \/ \E i \in DOMAIN GalleryNodes :
          GalleryNodes[i] = ref /\ NodeOf(ref).type = "folder"
  /\ currentNode' = ref
  /\ viewMode' = "HIERARCHY"
  /\ reader' = Overridden({"currentNode"})
  /\ UNCHANGED <<trees, rootNode, allImages, lightboxNode,
                 isShareModalOpen, isImporting, stats, imported,
                 modal, exports>>
  /\ FlushPassiveEffects
  /\ UNCHANGED <<codec, scale>>

\* setViewMode from the two buttons of the navbar (temp_App.tsx:270-277).
SetViewMode(m) ==
  /\ rootNode # Null
  /\ viewMode' = m
  /\ UNCHANGED <<trees, rootNode, currentNode, allImages,
                 lightboxNode, isShareModalOpen, isImporting, stats, reader,
                 imported, modal, exports>>
  /\ FlushPassiveEffects
  /\ UNCHANGED <<codec, scale>>

\* The file tiles of the Gallery (Gallery.tsx:14).
GalleryFiles == SelectSeq(GalleryNodes, LAMBDA r : NodeOf(r).type = "file")

\* onImageClick from a file tile that is not soft-deleted (Gallery.tsx:98).
OpenLightbox(ref) ==
  /\ rootNode # Null
  /\ ~Covered
  /\ \E i \in DOMAIN GalleryFiles : GalleryFiles[i] = ref
  /\ ~Truthy(NodeOf(ref).isDeleted)
  /\ lightboxNode' = ref
  /\ UNCHANGED <<trees, rootNode, currentNode, allImages, viewMode,
                 isShareModalOpen, isImporting, stats, reader, imported,
                 modal, exports>>
  /\ FlushPassiveEffects
  /\ UNCHANGED <<codec, scale>>

\* onClose of the Lightbox (temp_App.tsx:322).
CloseLightbox ==
  /\ lightboxNode # Null
  /\ lightboxNode' = Null
  /\ UNCHANGED <<trees, rootNode, currentNode, allImages, viewMode,
                 isShareModalOpen, isImporting, stats, reader, imported,
                 modal, exports>>
  /\ FlushPassiveEffects
  /\ UNCHANGED <<codec, scale>>

\* currentList.findIndex(n => n.id === lightboxNode.id): 0 if none.
RECURSIVE FindById(_, _, _)
FindById(list, id, i) ==
  IF i > Len(list) THEN 0
  ELSE IF NodeOf(list[i]).id = id THEN i ELSE FindById(list, id, i + 1)

\* handleNextImage (step = 1) and handlePrevImage (step = -1)
\* (temp_App.tsx:150-166), called from the buttons of the Lightbox, which
\* it renders for a node with a url (part_001:25, 52, 66), or by the
\* keydown listener for ArrowRight and ArrowLeft, which it registers for
\* any node (part_001:15-23).  A button calls the handler of the render on
\* the screen, a key the handler the listener was registered with.
\* lightboxNode is the same for both: only handlers set it, and the effects
\* that wait are run before a handler's render.
StepLightbox(step, byKey) ==
  /\ lightboxNode # Null
  /\ byKey \/ LightboxShown
  /\ LET currentList == SelectSeq(IF byKey THEN ListenerGalleryNodes
                                   ELSE GalleryNodes,
                          LAMBDA r : NodeOf(r).type = "file"
                                       /\ ~Truthy(NodeOf(r).isDeleted))
         idx == FindById(currentList, NodeOf(lightboxNode).id, 1)
     IN  /\ idx # 0
         /\ idx + step \in DOMAIN currentList
         /\ lightboxNode' = currentList[idx + step]
  /\ UNCHANGED <<trees, rootNode, currentNode, allImages, viewMode,
                 isShareModalOpen, isImporting, stats, reader, imported,
                 modal, exports>>
  /\ FlushPassiveEffects
  /\ UNCHANGED <<codec, scale>>

\* The isDeleted values of the nodes of a tree.
FlagsOf(nodes) == [n \in DOMAIN nodes |-> nodes[n].isDeleted]

\* handleToggleDelete(node) from a right click on a file tile
\* (Gallery.tsx:16-21, 99; temp_App.tsx:139-142).  An export of the tree
\* that is under way notes the soft-delete state the tree gets into.
handleToggleDelete(ref) ==
  /\ rootNode # Null
  /\ ~Covered
  /\ \E i \in DOMAIN GalleryFiles : GalleryFiles[i] = ref
  /\ trees' = [trees EXCEPT ![ref.t] = ToggleNode(@, ref.n)]
  /\ exports' = [e \in DOMAIN exports |->
                   IF exports[e].tree = ref.t
                        /\ exports[e].phase \in {"timer", "walking"}
                   THEN [exports[e] EXCEPT
                           !.moments = @ \cup {FlagsOf(ToggleNode(trees[ref.t], ref.n))}]
                   ELSE exports[e]]
  /\ UNCHANGED <<rootNode, currentNode, allImages, viewMode,
                 lightboxNode, isShareModalOpen, isImporting, stats, reader,
                 imported, modal>>
  /\ FlushPassiveEffects
  /\ UNCHANGED <<codec, scale>>

\* The setters of the ShareModal's effect on isOpen (Gallery.tsx:159-165),
\* called while React runs the effects of a commit: they are queued.
ResetQueued(m) ==
  Queue(Queue(Queue(m, "step", "idle"), "progress", 0), "downloadUrl", 0)

\* handlePublish (temp_App.tsx:135-137) and the effect of the ShareModal on
\* isOpen becoming true, run with the commit of the handler's render; with
\* the dialog open already the effect does not run.  The dialog opens with
\* the step, the progress and the download it had, until the queue is
\* rendered.  The exports started so far are noted as started before this
\* opening of the dialog.
handlePublish ==
  /\ rootNode # Null
  /\ isShareModalOpen' = TRUE
  /\ modal' = IF isShareModalOpen THEN modal ELSE ResetQueued(modal)
  /\ exports' = IF isShareModalOpen THEN exports
                ELSE [e \in DOMAIN exports |-> [exports[e] EXCEPT !.fresh = FALSE]]
  /\ UNCHANGED <<trees, rootNode, currentNode, allImages, viewMode,
                 lightboxNode, isImporting, stats, reader, imported>>
  /\ FlushPassiveEffects
  /\ UNCHANGED <<codec, scale>>

\* onClose of the ShareModal (temp_App.tsx:326).
CloseShareModal ==
  /\ isShareModalOpen
  /\ isShareModalOpen' = FALSE
  /\ UNCHANGED <<trees, rootNode, currentNode, allImages, viewMode,
                 lightboxNode, isImporting, stats, reader, imported, modal,
                 exports>>
  /\ FlushPassiveEffects
  /\ UNCHANGED <<codec, scale>>

\* handleGenerateSnapshot up to setTimeout (Gallery.tsx:167-175, 192).  The
\* button is rendered in step 'idle' of an open dialog (Gallery.tsx:195, 211),
\* the step being the one rendered last: updates that are queued do not
\* show yet.
handleGenerateSnapshot ==
  /\ isShareModalOpen
  /\ modal.step = "idle"
  /\ rootNode # Null
  /\ Len(exports) < MaxExports
  /\ modal' = SetNow(modal, "step", "processing")
  /\ exports' = Append(exports,
                  [tree |-> rootNode.t, totalFiles |-> stats.totalFiles,
                   phase |-> "timer", walk |-> NewWalk(trees[rootNode.t]),
                   text |-> NoText,
                   moments |-> {FlagsOf(trees[rootNode.t])}, fresh |-> TRUE])
  /\ UNCHANGED <<trees, rootNode, currentNode, allImages, viewMode,
                 lightboxNode, isShareModalOpen, isImporting, stats, reader,
                 imported>>
  /\ FlushPassiveEffects
  /\ UNCHANGED <<codec, scale>>

\* setProgress(Math.round((processedCount / totalFiles) * 100))
\* (Gallery.tsx:178-179), the quotient and the product being doubles; -1
\* stands for the value of a division by zero.
ProgressOf(processedCount, totalFiles) ==
  IF totalFiles = 0 THEN -1
  ELSE MathRound(100, processedCount, totalFiles)

\* A slip whose catch block sets up the download as the try block does.
AfterWalkStep_OfferOnThrow(e, w, thrown) ==
  LET called == Len(w.progress) > Len(exports[e].walk.progress)
      m1 == IF called
            THEN Queue(modal, "progress",
                       ProgressOf(Len(w.progress), exports[e].totalFiles))
            ELSE modal
      By(m) == [m EXCEPT !.queued.from = @ \cup {e}]
  IN  IF w.result = 0
      THEN /\ ~thrown
           /\ exports' = [exports EXCEPT ![e].phase = "walking", ![e].walk = w]
           /\ modal' = IF called THEN By(m1) ELSE modal
      ELSE IF thrown
      THEN /\ exports' = [exports EXCEPT ![e].phase = "failed",
                                         ![e].walk = NewWalk(<<>>)]
           /\ modal' = By(Queue(Queue(m1, "downloadUrl", e), "step", "ready"))
      ELSE /\ exports' = [exports EXCEPT ![e].phase = "ready",
                                         ![e].walk = NewWalk(<<>>),
                                         ![e].text = JsonStringify(w.out, w.result)]
           /\ modal' = By(Queue(Queue(m1, "downloadUrl", e), "step", "ready"))

\* What the callback of setTimeout does once the walk w of export e has run
\* up to its next await (Gallery.tsx:176-191): nothing more while a
\* transcode is awaited; when serializeTree has returned, the download is
\* set up, or the catch block runs if JSON.stringify, new Blob or
\* createObjectURL has thrown (the walk itself throws nothing: it catches
\* what a transcode throws).  The callback runs outside the handlers of
\* React, so what it passes to setProgress, setDownloadUrl and setStep is
\* queued; the dialog shows it with the render of the queue.
AfterWalkStep(e, w, thrown) ==
  LET called == Len(w.progress) > Len(exports[e].walk.progress)
      m1 == IF called
            THEN Queue(modal, "progress",
                       ProgressOf(Len(w.progress), exports[e].totalFiles))
            ELSE modal
      By(m) == [m EXCEPT !.queued.from = @ \cup {e}]
  IN  IF w.result = 0
      THEN /\ ~thrown
           /\ exports' = [exports EXCEPT ![e].phase = "walking", ![e].walk = w]
           /\ modal' = IF called THEN By(m1) ELSE modal
      ELSE IF thrown
      THEN /\ exports' = [exports EXCEPT ![e].phase = "failed",
                                         ![e].walk = NewWalk(<<>>)]
           /\ modal' = By(Queue(m1, "step", "idle"))
      ELSE /\ exports' = [exports EXCEPT ![e].phase = "ready",
                                         ![e].walk = NewWalk(<<>>),
                                         ![e].text = JsonStringify(w.out, w.result)]
           /\ modal' = By(Queue(Queue(m1, "downloadUrl", e), "step", "ready"))

\* The timer of export e fires: serializeTree(rootNode, ...) is called
\* (Gallery.tsx:175-180).
TimerFires(e, thrown) ==
  /\ e \in DOMAIN exports
  /\ exports[e].phase = "timer"
  /\ AfterWalkStep(e, StartWalk(trees[exports[e].tree]), thrown)
  /\ UNCHANGED <<trees, revoked, rootNode, currentNode, allImages, viewMode,
                 lightboxNode, isShareModalOpen, isImporting, stats, reader,
                 imported>>
  /\ UNCHANGED <<codec, scale, passive>>

\* The transcode export e awaits settles.
TranscodeSettles(e, ev, thrown) ==
  /\ e \in DOMAIN exports
  /\ exports[e].phase = "walking"
  /\ exports[e].walk.awaiting # 0
  /\ LET nodes == trees[exports[e].tree]
         settle == processImageForExport(nodes[exports[e].walk.awaiting].file, ev)
     IN  AfterWalkStep(e, ResumeWalk(exports[e].walk, nodes, settle), thrown)
  /\ UNCHANGED <<trees, revoked, rootNode, currentNode, allImages, viewMode,
                 lightboxNode, isShareModalOpen, isImporting, stats, reader,
                 imported>>
  /\ UNCHANGED <<codec, scale, passive>>

\* What leaves the promise of processImageForExport pending for ever: an
\* exception thrown by ctx.drawImage or by canvas.toDataURL inside
\* img.onload (fileUtils.ts:86-114), where nothing catches it and resolve
\* is not reached.
StrandingEvents == {"drawThrows", "encodeThrows"}

\* The transcode export e awaits meets a stranding event: its callbacks
\* have run and the promise stays pending.
TranscodeStrands(e, ev) ==
  /\ e \in DOMAIN exports
  /\ ev \in StrandingEvents
  /\ exports[e].phase = "walking"
  /\ exports[e].walk.awaiting # 0
  /\ exports' = [exports EXCEPT ![e].phase = "stranded"]
  /\ UNCHANGED <<trees, revoked, rootNode, currentNode, allImages, viewMode,
                 lightboxNode, isShareModalOpen, isImporting, stats, reader,
                 imported, modal>>
  /\ UNCHANGED <<codec, scale, passive>>

Init ==
  /\ codec = CodecIdle
  /\ scale = ScaleIdle
  /\ AppInit

\* The steps of the workspace with its gallery and lightbox.
NextWorkspace ==
  \/ \E files \in UploadLists : handleUpload(files)
  \/ handleReset
  \/ \E text \in WorkspaceTexts : handleImport(text)
  \/ ReaderOnLoad
  \/ RenderQueued
  \/ RunPassiveEffects
  \/ ReaderOnError
  \/ \E t \in DOMAIN trees : \E n \in DOMAIN trees[t] : handleSelectNode(Ref(t, n))
  \/ \E m \in {"HIERARCHY", "ALL_PHOTOS"} : SetViewMode(m)
  \/ \E t \in DOMAIN trees : \E n \in DOMAIN trees[t] : OpenLightbox(Ref(t, n))
  \/ CloseLightbox
  \/ \E step \in {-1, 1}, byKey \in BOOLEAN : StepLightbox(step, byKey)
  \/ \E t \in DOMAIN trees : \E n \in DOMAIN trees[t] : handleToggleDelete(Ref(t, n))

\* What a transcode meets while the dialog is watched: it succeeds, or it
\* fails and resolves with the empty string.
DialogEvents == {"encoded", "readError"}

\* The steps of the share dialog and of the exports it starts, with the
\* step of the workspace that loads the tree exported.
NextShare ==
  \/ \E files \in UploadLists : handleUpload(files)
  \/ handlePublish
  \/ CloseShareModal
  \/ handleGenerateSnapshot
  \/ \E e \in DOMAIN exports, thrown \in BOOLEAN : TimerFires(e, thrown)
  \/ \E e \in DOMAIN exports, ev \in DialogEvents, thrown \in BOOLEAN :
       TranscodeSettles(e, ev, thrown)
  \/ RenderQueued

\* The steps of the first export of a session with the soft deletes the
\* user makes after closing the dialog over it.
NextFreeze ==
  \/ handleUpload(PhotosList)
  \/ \E m \in {"HIERARCHY", "ALL_PHOTOS"} : SetViewMode(m)
  \/ \E t \in DOMAIN trees : \E n \in DOMAIN trees[t] : handleToggleDelete(Ref(t, n))
  \/ handlePublish
  \/ CloseShareModal
  \/ exports = <<>> /\ handleGenerateSnapshot
  \/ \E e \in DOMAIN exports, thrown \in BOOLEAN : TimerFires(e, thrown)
  \/ \E e \in DOMAIN exports, ev \in TranscodeEvents, thrown \in BOOLEAN :
       TranscodeSettles(e, ev, thrown)
  \/ RenderQueued

\* The steps of the exports of a loaded folder, every outcome of a
\* transcode included.
NextExport ==
  \/ \E files \in UploadLists : handleUpload(files)
  \/ handlePublish
  \/ CloseShareModal
  \/ handleGenerateSnapshot
  \/ \E e \in DOMAIN exports, thrown \in BOOLEAN : TimerFires(e, thrown)
  \/ \E e \in DOMAIN exports, ev \in TranscodeEvents, thrown \in BOOLEAN :
       TranscodeSettles(e, ev, thrown)
  \/ RenderQueued
  \/ \E e \in DOMAIN exports, ev \in StrandingEvents : TranscodeStrands(e, ev)

\* The workspace while the share dialog stays closed.
SpecWorkspace == Init /\ [][NextWorkspace]_vars

\* The share dialog over a folder loaded with the picker, the lightbox
\* staying closed.
SpecShare == Init /\ [][NextShare]_vars

\* The exports under the scheduling of the browser: no export that can
\* go on waits for ever.
SpecExport ==
  /\ Init
  /\ [][NextExport]_vars
  /\ \A e \in 1..MaxExports :
        WF_vars(\/ \E ev \in StrandingEvents : TranscodeStrands(e, ev)
                \/ \E thrown \in BOOLEAN : TimerFires(e, thrown)
                \/ \E ev \in TranscodeEvents, thrown \in BOOLEAN :
                     TranscodeSettles(e, ev, thrown))

\* One export of a folder whose files are soft-deleted while it runs.
SpecFreeze == Init /\ [][NextFreeze]_vars

\* The steps that load and clear the workspace.
NextImport ==
  \/ \E files \in UploadLists : handleUpload(files)
  \/ handleReset
  \/ \E text \in ImportTexts : handleImport(text)
  \/ ReaderOnLoad
  \/ RenderQueued
  \/ RunPassiveEffects
  \/ ReaderOnError
  \/ \E t \in DOMAIN trees : \E n \in DOMAIN trees[t] : handleSelectNode(Ref(t, n))

\* Loading under the scheduling of the browser: a FileReader that was
\* started ends its read, with a load event or with an error event.
SpecImport ==
  /\ Init
  /\ [][NextImport]_vars
  /\ WF_vars(RunPassiveEffects \/ RenderQueued \/ ReaderOnError \/ ReaderOnLoad)

(***************************************************************************)
(* The codec pipeline on its own: a FileList is ingested, file nodes are   *)
(* soft-deleted, the tree is serialized, encoded, parsed and rebuilt, and  *)
(* the rebuilt tree is serialized in its turn, file nodes of it being      *)
(* soft-deleted while its transcodes are awaited.                          *)
(***************************************************************************)
InitCodec ==
  /\ codec \in { [CodecIdle EXCEPT !.pc = "input", !.files = f] :
                   f \in FileLists(MaxFiles) }
  /\ scale = ScaleIdle
  /\ AppInit

\* parseFilesToTree(files).  built keeps the value as returned, tree is the
\* live tree soft deletes act on.
Ingest ==
  /\ codec.pc = "input"
  /\ codec' = [codec EXCEPT !.pc = "tree",
                            !.built = parseFilesToTree(codec.files, 1),
                            !.tree = parseFilesToTree(codec.files, 1)]
  /\ UNCHANGED <<scale, appVars>>

\* A file tile of the live tree is right-clicked.
CodecToggle ==
  /\ codec.pc = "tree"
  /\ \E n \in DOMAIN codec.tree.nodes :
        /\ codec.tree.nodes[n].type = "file"
        /\ codec' = [codec EXCEPT !.tree.nodes = ToggleNode(@, n)]
  /\ UNCHANGED <<scale, appVars>>

\* A file tile of the rebuilt tree is right-clicked in a task that runs
\* while the walk of that tree awaits a transcode.
RestoredToggle ==
  /\ codec.pc = "rewalking"
  /\ \E n \in DOMAIN codec.restored.nodes :
        /\ codec.restored.nodes[n].type = "file"
        /\ codec' = [codec EXCEPT !.restored.nodes = ToggleNode(@, n)]
  /\ UNCHANGED <<scale, appVars>>

\* The walk w has run up to its next await: the pipeline waits for the
\* transcode, or serializeTree has returned and JSON.stringify encodes its
\* result.
AfterSerializeStep(w, events) ==
  codec' = [codec EXCEPT
              !.pc = IF w.result = 0 THEN "walking" ELSE "text",
              !.walk = w,
              !.events = events,
              !.text = IF w.result = 0 THEN @ ELSE JsonStringify(w.out, w.result)]

\* serializeTree(root) is called and runs up to its first await.
Serialize ==
  /\ codec.pc = "tree"
  /\ AfterSerializeStep(StartWalk(codec.tree.nodes), <<>>)
  /\ UNCHANGED <<scale, appVars>>

\* The transcode the walk awaits meets event ev and settles; events keeps
\* what each transcode has met.
SerializeResume ==
  /\ codec.pc = "walking"
  /\ \E ev \in TranscodeEvents :
        LET nodes == codec.tree.nodes
            settle == processImageForExport(nodes[codec.walk.awaiting].file, ev)
        IN  AfterSerializeStep(ResumeWalk(codec.walk, nodes, settle),
                               Append(codec.events, ev))
  /\ UNCHANGED <<scale, appVars>>

\* JSON.parse of the text and deserializeTree of the value.
Deserialize ==
  /\ codec.pc = "text"
  /\ LET parsed == JsonParse(codec.text)
     IN  codec' = [codec EXCEPT
                     !.pc = "restored",
                     !.restored = IF parsed.threw
                                  THEN [NoRestored EXCEPT !.threw = TRUE]
                                  ELSE deserializeTree(parsed, 1)]
  /\ UNCHANGED <<scale, appVars>>

\* What the transcode of a File that deserializeTree has made of a payload
\* meets.  The payload was written by canvas.toDataURL: a JPEG, which the
\* browser reads, decodes and encodes again, or 'data:,', of which
\* base64ToBlob makes a File without bytes that the Image does not decode
\* (img.onerror, fileUtils.ts:117-120).
RestoredEvent(file) == IF file.size = 0 THEN "imageError" ELSE "encoded"

\* The walk w of the rebuilt tree has run up to its next await: the
\* pipeline waits for the transcode, or serializeTree has returned.
AfterReexportStep(w, events) ==
  codec' = [codec EXCEPT
              !.pc = IF w.result = 0 THEN "rewalking" ELSE "rewalked",
              !.rewalk = w,
              !.revents = events]

\* serializeTree(root) is called for the tree deserializeTree has returned,
\* as an export of an imported snapshot calls it, and runs up to its first
\* await.
Reexport ==
  /\ codec.pc = "restored"
  /\ ~codec.restored.threw
  /\ LET nodes == codec.restored.nodes
     IN  AfterReexportStep(EnterNode(NewWalk(nodes), nodes, codec.restored.ret),
                           <<>>)
  /\ UNCHANGED <<scale, appVars>>

\* The transcode the walk of the rebuilt tree awaits settles; revents keeps
\* what each transcode has met.
ReexportResume ==
  /\ codec.pc = "rewalking"
  /\ LET nodes == codec.restored.nodes
         file == nodes[codec.rewalk.awaiting].file
         ev == RestoredEvent(file)
     IN  AfterReexportStep(ResumeWalk(codec.rewalk, nodes,
                                      processImageForExport(file, ev)),
                           Append(codec.revents, ev))
  /\ UNCHANGED <<scale, appVars>>

NextCodec ==
  \/ Ingest
  \/ CodecToggle
  \/ Serialize
  \/ SerializeResume
  \/ Deserialize
  \/ Reexport
  \/ ReexportResume
  \/ RestoredToggle

SpecCodec == InitCodec /\ [][NextCodec]_vars

(***************************************************************************)
(* Round trip.                                                             *)
(***************************************************************************)
\* The pairs of nodes at corresponding positions of the subtree of live at
\* i and the subtree of rest at j: the two nodes, their first children,
\* their second children, and so on downwards.
RECURSIVE Corresponding(_, _, _, _)
Corresponding(live, i, rest, j) ==
  {<<i, j>>} \cup
  UNION { Corresponding(live, live[i].children[c], rest, rest[j].children[c]) :
            c \in 1..Min(Len(live[i].children), Len(rest[j].children)) }

\* Corresponding nodes have equally many children and the same id, name,
\* path and type.
SameShape(live, rest, pairs) ==
  \A p \in pairs :
    /\ Len(live[p[1]].children) = Len(rest[p[2]].children)
    /\ live[p[1]].id = rest[p[2]].id
    /\ live[p[1]].name = rest[p[2]].name
    /\ live[p[1]].path = rest[p[2]].path
    /\ live[p[1]].type = rest[p[2]].type

\* C1 as stated (round trip): the rebuilt tree has the shape of the live
\* tree and every node, root and folders included, has the same id, name,
\* path, type and isDeleted value.
C1_RoundTrip_Original ==
  (codec.pc = "restored" /\ ~codec.restored.threw) =>
    LET live == codec.tree.nodes
        rest == codec.restored.nodes
        pairs == Corresponding(live, 1, rest, codec.restored.ret)
    IN  /\ SameShape(live, rest, pairs)
        /\ \A p \in pairs : rest[p[2]].isDeleted = live[p[1]].isDeleted

\* C1 as amended (round trip): the rebuilt tree has the shape of the live
\* tree, children in the same order, and every node has the same id, name,
\* path and type; a file node has the same isDeleted value, and the root
\* and the folders, whose isDeleted is not set in the live tree, come back
\* with isDeleted false.
C1_RoundTrip ==
  codec.pc = "restored" =>
    /\ ~codec.restored.threw
    /\ LET live == codec.tree.nodes
           rest == codec.restored.nodes
           pairs == Corresponding(live, 1, rest, codec.restored.ret)
       IN  /\ SameShape(live, rest, pairs)
           /\ { p[1] : p \in pairs } = DOMAIN live
           /\ { p[2] : p \in pairs } = DOMAIN rest
           /\ \A p \in pairs :
                 /\ live[p[1]].type = "file"
                    => rest[p[2]].isDeleted = live[p[1]].isDeleted
                 /\ live[p[1]].type = "folder"
                    => /\ live[p[1]].isDeleted = Undefined
                       /\ rest[p[2]].isDeleted = JsFalse

\* A tree with a subfolder, one of its files soft-deleted, went through
\* serialize, encode, parse and deserialize.
C1_Witness ==
  /\ codec.pc = "restored"
  /\ codec.files = InterleavedList
  /\ Len(codec.restored.nodes) = 6
  /\ \E i \in DOMAIN codec.restored.nodes :
        /\ codec.restored.nodes[i].type = "file"
        /\ codec.restored.nodes[i].isDeleted = JsTrue
        /\ codec.restored.nodes[i].path = "T/a.png"
  /\ \E i \in DOMAIN codec.restored.nodes :
        /\ codec.restored.nodes[i].type = "file"
        /\ codec.restored.nodes[i].isDeleted = JsFalse

(***************************************************************************)
(* The transcoder's canvas sizing on its own: an image of some size has    *)
(* been decoded (img.onload) and the canvas is sized for it.               *)
(***************************************************************************)
InitScale ==
  /\ codec = CodecIdle
  /\ AppInit
  /\ scale \in { [pc |-> "loaded", width |-> w, height |-> h,
                   outWidth |-> 0, outHeight |-> 0] : w, h \in EdgePool }

SizeCanvas ==
  /\ scale.pc = "loaded"
  /\ LET out == ScaledSize(scale.width, scale.height)
     IN  scale' = [scale EXCEPT !.pc = "done", !.outWidth = out.width,
                                !.outHeight = out.height]
  /\ UNCHANGED <<codec, appVars>>

NextScale == SizeCanvas

SpecScale == InitScale /\ [][NextScale]_vars

\* r is the integer nearest to num / den (either neighbour on a tie).
IsNearest(r, num, den) == 2 * r * den - 2 * num <= den /\ 2 * num - 2 * r * den <= den

\* The integer nearest to num / den, a half going up.
RoundHalfUp(num, den) == (2 * num + den) \div (2 * den)

\* C10 as stated (scale rule): an image whose short edge is at most 1024
\* keeps its size; otherwise the output dimensions are
\* round(width * 1024 / shortEdge) and round(height * 1024 / shortEdge), the
\* output short edge is within one pixel of 1024, and no dimension grows.
C10_ScaleRule_Original ==
  scale.pc = "done" =>
    LET shortEdge == Min(scale.width, scale.height)
    IN  /\ shortEdge <= 1024 =>
              scale.outWidth = scale.width /\ scale.outHeight = scale.height
        /\ shortEdge > 1024 =>
              /\ scale.outWidth = RoundHalfUp(scale.width * 1024, shortEdge)
              /\ scale.outHeight = RoundHalfUp(scale.height * 1024, shortEdge)
              /\ Min(scale.outWidth, scale.outHeight) \in 1023..1025
              /\ scale.outWidth <= scale.width
              /\ scale.outHeight <= scale.height

\* C10 as amended (scale rule): an image whose short edge is at most 1024
\* keeps its size; otherwise each output dimension is an integer nearest to
\* the input dimension times 1024 / shortEdge (either neighbour of a value
\* that lies on a half), the output short edge is within one pixel of 1024,
\* and no dimension grows.
C10_ScaleRule ==
  scale.pc = "done" =>
    LET shortEdge == Min(scale.width, scale.height)
    IN  /\ shortEdge <= 1024 =>
              scale.outWidth = scale.width /\ scale.outHeight = scale.height
        /\ shortEdge > 1024 =>
              /\ IsNearest(scale.outWidth, scale.width * 1024, shortEdge)
              /\ IsNearest(scale.outHeight, scale.height * 1024, shortEdge)
              /\ Min(scale.outWidth, scale.outHeight) \in 1023..1025
              /\ scale.outWidth <= scale.width
              /\ scale.outHeight <= scale.height

\* An image larger than the target was scaled down, its long edge landing
\* on a half pixel and coming out as the lower neighbour.
C10_Witness ==
  /\ scale.pc = "done"
  /\ scale.width = 139699 /\ scale.height = 100352
  /\ scale.outWidth = 1425 /\ scale.outHeight = 1024

(***************************************************************************)
(* Properties of the ingestion builder.                                    *)
(***************************************************************************)
\* An entry the builder is to drop: hidden name or non-image media type.
IsDropped(f) == StartsWith(f.name, ".") \/ ~StartsWith(f.type, "image/")

KeptFiles(files) == SelectSeq(files, LAMBDA f : ~IsDropped(f))

FileNodesOf(nodes) == { i \in DOMAIN nodes : nodes[i].type = "file" }
FolderNodesOf(nodes) == { i \in DOMAIN nodes : nodes[i].type = "folder" }

\* C8 (drop on ingest): the tree and the accumulator built from a FileList
\* are those built from the list without its hidden and non-image entries;
\* there is one file node and one accumulator entry per kept entry, and
\* every folder other than the root lies on the path of a kept entry.
C8_DropOnIngest ==
  codec.pc # "input" =>
    LET kept == KeptFiles(codec.files)
        t == codec.built
    IN  /\ t = parseFilesToTree(kept, 1)
        /\ Len(t.allImages) = Len(kept)
        /\ Cardinality(FileNodesOf(t.nodes)) = Len(kept)
        /\ \A i \in DOMAIN t.allImages :
              /\ t.nodes[t.allImages[i]].name = kept[i].name
              /\ t.nodes[t.allImages[i]].path = kept[i].webkitRelativePath
        /\ \A d \in FolderNodesOf(t.nodes) \ {1} :
              \E k \in DOMAIN kept :
                StartsWith(kept[k].webkitRelativePath, t.nodes[d].path \o "/")

\* A list with a hidden entry, a non-image entry and a kept entry was ingested.
C8_Witness ==
  /\ codec.pc = "tree"
  /\ \E i, j, k \in DOMAIN codec.files :
        /\ StartsWith(codec.files[i].name, ".")
        /\ codec.files[j].type = "text/plain"
        /\ ~IsDropped(codec.files[k])
  /\ Len(codec.built.allImages) = 1

\* The folder segments of a relative path.
DirParts(p) == LET parts == Split(p, "/") IN SubSeq(parts, 1, Len(parts) - 1)

\* C9 (folder de-dup): no node has two folder children of the same name,
\* and file nodes whose entries share their folder prefix have the same
\* parent node.
C9_FolderDedup ==
  codec.pc # "input" =>
    LET nodes == codec.built.nodes
    IN  /\ \A n \in DOMAIN nodes :
              \A i, j \in DOMAIN nodes[n].children :
                (/\ i # j
                 /\ nodes[nodes[n].children[i]].type = "folder"
                 /\ nodes[nodes[n].children[j]].type = "folder")
                => nodes[nodes[n].children[i]].name # nodes[nodes[n].children[j]].name
        /\ \A a, b \in FileNodesOf(nodes) :
              DirParts(nodes[a].path) = DirParts(nodes[b].path)
                => nodes[a].parent = nodes[b].parent

\* Two entries of one folder were ingested and sit under the one folder A.
C9_Witness ==
  /\ codec.pc = "tree"
  /\ \E a, b \in FileNodesOf(codec.built.nodes) :
        /\ a # b
        /\ codec.built.nodes[a].path = "T/A/x.png"
        /\ codec.built.nodes[b].path = "T/A/y.jpg"
        /\ codec.built.nodes[a].parent = codec.built.nodes[b].parent
        /\ codec.built.nodes[codec.built.nodes[a].parent].name = "A"

(***************************************************************************)
(* Properties of the serializer walk.                                      *)
(***************************************************************************)
\* The file nodes below node i that carry a file, in depth-first pre-order,
\* the children of a node in the order of node.children.
RECURSIVE PreOrderFiles(_, _)
RECURSIVE PreOrderFilesIn(_, _, _)
PreOrderFiles(nodes, i) ==
  (IF NeedsTranscode(nodes[i]) THEN <<i>> ELSE <<>>)
    \o PreOrderFilesIn(nodes, nodes[i].children, 1)

PreOrderFilesIn(nodes, kids, c) ==
  IF c > Len(kids) THEN <<>>
  ELSE PreOrderFiles(nodes, kids[c]) \o PreOrderFilesIn(nodes, kids, c + 1)

IsPrefix(s, t) == Len(s) <= Len(t) /\ s = SubSeq(t, 1, Len(s))

\* The walk w, which has met events and has returned if done, takes the
\* file nodes in the given order: the transcodes are started in that order,
\* onProgress is called for a node when its transcode has settled and
\* before the next one is started, and when the walk has returned it has
\* been called once for every node of the order.
WalkFollows(w, events, done, order) ==
  /\ IsPrefix(w.calls, order)
  /\ IsPrefix(w.progress, w.calls)
  /\ Len(w.progress) = Len(events)
  /\ Len(w.calls) = Len(w.progress) + (IF w.awaiting # 0 THEN 1 ELSE 0)
  /\ w.awaiting # 0 => w.calls[Len(w.calls)] = w.awaiting
  /\ done => w.progress = order

\* The walk of the live tree of the pipeline takes the file nodes in the
\* given order.
ProgressFollows(order) ==
  WalkFollows(codec.walk, codec.events, codec.pc # "walking", order)

\* C3 as stated (sequential progress): during and after a walk of a live
\* tree with N file nodes, built from a FileList or rebuilt from a
\* snapshot, the k-th call of the progress callback belongs to the k-th
\* node of the flat accumulator, after that node's transcode has settled,
\* and the walk ends with N calls.
C3_Progress_Original ==
  /\ codec.pc \in {"walking", "text", "restored"} =>
       /\ ProgressFollows(codec.tree.allImages)
       /\ Len(codec.tree.allImages) = Cardinality(FileNodesOf(codec.tree.nodes))
  /\ codec.pc \in {"rewalking", "rewalked"} =>
       /\ WalkFollows(codec.rewalk, codec.revents, codec.pc = "rewalked",
                      codec.restored.acc)
       /\ Len(codec.restored.acc)
            = Cardinality(FileNodesOf(codec.restored.nodes))

\* C3 as amended (sequential progress): during and after a walk of a
\* tree built from a FileList and of a tree rebuilt from a snapshot, the
\* k-th call of the progress callback belongs to the k-th of the file
\* nodes that carry a file, taken in depth-first pre-order, after that
\* node's transcode has settled and before the next transcode starts, and
\* the walk ends with one call for each of them.  In a tree
\* built from a FileList these are all N file nodes, the entries of the
\* flat accumulator.  In a tree rebuilt from a snapshot they are the file
\* nodes rebuilt from a payload, in the order of the accumulator; a file
\* node without payload has no file and gets no call.
C3_Progress ==
  /\ codec.pc \in {"walking", "text", "restored", "rewalking", "rewalked"} =>
       LET order == PreOrderFiles(codec.tree.nodes, 1)
       IN  /\ ProgressFollows(order)
           /\ Len(order) = Cardinality(FileNodesOf(codec.tree.nodes))
           /\ Len(order) = Len(codec.tree.allImages)
           /\ Range(order) = Range(codec.tree.allImages)
  /\ codec.pc \in {"rewalking", "rewalked"} =>
       LET nodes == codec.restored.nodes
           order == PreOrderFiles(nodes, codec.restored.ret)
       IN  /\ WalkFollows(codec.rewalk, codec.revents, codec.pc = "rewalked",
                          order)
           /\ order = codec.restored.acc
           /\ Range(order) = { n \in FileNodesOf(nodes) : nodes[n].file # NoFile }

\* The walk of a tree whose accumulator interleaves two folders has
\* returned after three calls of the callback, in another order than the
\* accumulator's; one of the three transcodes had failed, and the walk of
\* the tree rebuilt from the snapshot has returned after two calls, the
\* tree having three file nodes.
C3_Witness ==
  /\ codec.pc = "rewalked"
  /\ codec.files = InterleavedList
  /\ Len(codec.walk.progress) = 3
  /\ codec.walk.progress # codec.tree.allImages
  /\ Len(codec.rewalk.progress) = 2
  /\ Cardinality(FileNodesOf(codec.restored.nodes)) = 3

\* The serialized file nodes of the encoded text are those of the tree, all
\* linked in as the tree links them, and the payload of the k-th one
\* transcoded is the data URL of its own file if the transcode succeeded
\* and failed(k) otherwise.
PayloadsAre(failed(_)) ==
  LET nodes == codec.tree.nodes
      order == codec.walk.calls
      doc == JsonParse(codec.text)
  IN  /\ ~doc.threw
      /\ doc.root = 1
      /\ DOMAIN doc.nodes = DOMAIN nodes
      /\ \A n \in DOMAIN nodes : Get(doc.nodes[n], "children") = nodes[n].children
      /\ Range(order) = FileNodesOf(nodes)
      /\ Len(order) = Len(codec.events)
      /\ \A k \in DOMAIN order :
            Get(doc.nodes[order[k]], "thumbnailData") =
              IF codec.events[k] = "encoded"
              THEN ToDataURL(nodes[order[k]].file, "encoded")
              ELSE failed(k)

EmptyOrNoKey(k) == IF codec.events[k] = "throws" THEN Undefined ELSE ""

\* C4 (failure isolation): in the output of a walk, the serialized node of
\* a file whose transcode failed (read, decode, missing context, encode, or
\* a thrown exception) has no payload, its thumbnailData being absent or the
\* empty string; the walk runs to its end and every other file node is
\* there with its own payload.
C4_FailureIsolation ==
  codec.pc \in {"text", "restored"} => PayloadsAre(EmptyOrNoKey)

(***************************************************************************)
(* Properties of the share dialog.                                         *)
(***************************************************************************)
\* The exports whose walk awaits a transcode.
InFlight ==
  { e \in DOMAIN exports :
      exports[e].phase = "walking" /\ exports[e].walk.awaiting # 0 }

\* C2 (one transcode at a time): at no moment are two transcodes in flight,
\* whatever the user does with the share dialog.
C2_OneTranscodeInFlight == Cardinality(InFlight) <= 1

(***************************************************************************)
(* Properties of the workspace.                                            *)
(***************************************************************************)
\* A snapshot text that is no JSON, or whose value is not an object, or one
\* of whose objects lacks id, name, path, type or an array of children.
Malformed(text) ==
  \/ text.kind # "json"
  \/ text.root = 0
  \/ \E i \in DOMAIN text.nodes :
        \/ ~({"id", "name", "path", "type", "children"} \subseteq text.nodes[i].keys)
        \/ ~text.nodes[i].childrenIsArray

\* C5 (malformed snapshot rejection): when the read of a malformed snapshot
\* ends, the one signal 'Invalid snapshot file.' is raised and rootNode,
\* currentNode, allImages and stats stay as they were, no new value
\* being set for any of them.
C5_MalformedRejected ==
  [][ (ReaderOnLoad /\ Malformed(reader.text))
        => /\ imported'.signal = "Invalid snapshot file."
           /\ imported'.rejected = imported.rejected + 1
           /\ reader'.hooks = {}
           /\ UNCHANGED <<rootNode, currentNode, allImages, stats>> ]_vars

\* The trees reader.onload has restored that have not become rootNode: the
\* one whose setters are queued, and those whose setRootNode lost to a
\* later update.
Unadopted ==
  imported.dropped
    \cup (IF reader.state = "queued" /\ reader.root # Null
          THEN {reader.root.t} ELSE {})

\* The object URLs of the nodes of tree t.
OwnedUrls(t) ==
  { trees[t][n].url : n \in { m \in DOMAIN trees[t] : trees[t][m].url # 0 } }

\* The tree that has just been replaced by the render of an import, the
\* cleanup of its list not having run yet.
AwaitingCleanup == IF passive.pending THEN {passive.old.t} ELSE {}

C7_NoUseAfterRelease ==
  /\ (lightboxNode # Null /\ NodeOf(lightboxNode).url # 0)
        => revoked[NodeOf(lightboxNode).url] = 0
  /\ \A i \in DOMAIN GalleryNodes :
        NodeOf(GalleryNodes[i]).url # 0
          => revoked[NodeOf(GalleryNodes[i]).url] = 0

(***************************************************************************)
(* Properties of the soft delete.                                          *)
(***************************************************************************)
\* C11 (idempotent soft delete): a right click on a file tile flips the
\* isDeleted of its node and changes nothing else, neither another field of
\* the node, nor another node, nor another tree, nor which node is the
\* root; a second right click on the tile restores the tree as it was.
C11_ToggleTwice ==
  [][ \A t \in DOMAIN trees : \A n \in DOMAIN trees[t] :
        handleToggleDelete(Ref(t, n))
          => /\ rootNode' = rootNode
             /\ currentNode' = currentNode
             /\ allImages' = allImages
             /\ DOMAIN trees' = DOMAIN trees
             /\ \A u \in DOMAIN trees : u # t => trees'[u] = trees[u]
             /\ DOMAIN trees'[t] = DOMAIN trees[t]
             /\ \A m \in DOMAIN trees[t] : m # n => trees'[t][m] = trees[t][m]
             /\ trees'[t][n].isDeleted # trees[t][n].isDeleted
             /\ [trees'[t][n] EXCEPT !.isDeleted = trees[t][n].isDeleted]
                  = trees[t][n]
             /\ ToggleNode(trees'[t], n) = trees[t] ]_vars

(***************************************************************************)
(* Properties of the snapshot.                                             *)
(***************************************************************************)
\* The isDeleted values of the objects of a snapshot text.
SnapshotFlags(text) ==
  [n \in DOMAIN text.nodes |-> Get(text.nodes[n], "isDeleted")]

\* C12 (snapshot freezes the soft-delete state): the isDeleted values of a
\* completed snapshot are those the live tree had, all together, at one
\* moment between the click on Generate and the completion of the export.
C12_FrozenFlags ==
  \A e \in DOMAIN exports :
    exports[e].phase = "ready"
      => SnapshotFlags(exports[e].text) \in exports[e].moments

(***************************************************************************)
(* Properties of the trees the workspace adopts.                           *)
(***************************************************************************)
\* C13 (root invariant): in every tree the workspace has adopted, from the
\* folder picker or from a snapshot file, the root has path "" and type
\* folder and is the only node without a parent.
C13_RootInvariant ==
  \A t \in DOMAIN trees \ Unadopted :
    LET nodes == trees[t]
    IN  /\ nodes[1].path = ""
        /\ nodes[1].type = "folder"
        /\ \A n \in DOMAIN nodes : nodes[n].parent = 0 <=> n = 1

(***************************************************************************)
(* Properties of the ids and paths the ingestion builder assigns.          *)
(***************************************************************************)
\* No two nodes of the tree have the same id.
UniqueIds(nodes) ==
  \A a, b \in DOMAIN nodes : a # b => nodes[a].id # nodes[b].id

\* The path the builder walks for an entry: its relative path, or its name
\* when it has none.
EntryPath(f) ==
  IF TruthyStr(f.webkitRelativePath) THEN f.webkitRelativePath ELSE f.name

\* C14 as stated (id uniqueness): a tree built from entries with pairwise
\* distinct relative paths has no two nodes with the same id.
C14_UniqueIds_Original ==
  (/\ codec.pc # "input"
   /\ \A i, j \in DOMAIN codec.files :
        i # j => codec.files[i].webkitRelativePath # codec.files[j].webkitRelativePath)
    => UniqueIds(codec.built.nodes)

\* C14 as amended (id uniqueness): a tree built from a list whose kept
\* entries have pairwise distinct paths without empty segments, none of
\* them being a folder on the path of another, has no two nodes with the
\* same id.
C14_UniqueIds ==
  LET kept == KeptFiles(codec.files)
  IN  (/\ codec.pc # "input"
       /\ \A i, j \in DOMAIN kept :
            i # j => /\ EntryPath(kept[i]) # EntryPath(kept[j])
                     /\ ~StartsWith(EntryPath(kept[j]), EntryPath(kept[i]) \o "/")
       /\ \A i \in DOMAIN kept : "" \notin Range(Split(EntryPath(kept[i]), "/")))
        => UniqueIds(codec.built.nodes)

\* A tree of six nodes was built from three distinct paths that share
\* folders.
C14_Witness ==
  /\ codec.pc = "tree"
  /\ codec.files = InterleavedList
  /\ Len(codec.built.nodes) = 6
  /\ UniqueIds(codec.built.nodes)

(***************************************************************************)
(* Properties of the export.                                               *)
(***************************************************************************)
\* C15 (export runs to completion): every export that was started
\* eventually has returned the serialized root or has ended with a fatal
\* error.
C15_ExportCompletes ==
  \A e \in 1..MaxExports :
    (e \in DOMAIN exports)
      ~> (e \in DOMAIN exports /\ exports[e].phase \in {"ready", "failed"})

\* The text holds the serialization of every node of the tree, linked as
\* the tree links them, from the root down.
CompleteSnapshot(text, nodes) ==
  /\ text.kind = "json"
  /\ text.root = 1
  /\ DOMAIN text.nodes = DOMAIN nodes
  /\ \A n \in DOMAIN nodes :
        /\ Get(text.nodes[n], "id") = nodes[n].id
        /\ Get(text.nodes[n], "name") = nodes[n].name
        /\ Get(text.nodes[n], "type") = nodes[n].type
        /\ Get(text.nodes[n], "children") = nodes[n].children

\* The dialog in step 'ready' offers the download of an export whose walk
\* has returned, and that is the serialization of the entire tree; no other
\* export has a text.
ReadyIsComplete ==
  /\ modal.step = "ready"
       => /\ modal.downloadUrl \in DOMAIN exports
          /\ exports[modal.downloadUrl].phase = "ready"
  /\ \A e \in DOMAIN exports :
        IF exports[e].phase = "ready"
        THEN CompleteSnapshot(exports[e].text, trees[exports[e].tree])
        ELSE exports[e].text = NoText

\* The render that shows what the callback of a failed export has set
\* shows the dialog in step 'idle'.
FailureShowsIdle ==
  \A e \in DOMAIN exports :
    (/\ exports[e].phase = "failed"
     /\ e \in modal.queued.from
     /\ e \notin modal'.queued.from)
      => modal'.step = "idle"

\* The step in which an export fails passes 'idle' to setStep, passes
\* nothing to setDownloadUrl and keeps no text of the export; what the
\* dialog shows stays as it is until the queue is rendered.
FailureQueuesIdle ==
  \A e \in DOMAIN exports :
    (exports[e].phase # "failed" /\ exports'[e].phase = "failed")
      => /\ "step" \in modal'.queued.hooks
         /\ modal'.queued.step = "idle"
         /\ Rendered(modal').step = "idle"
         /\ Rendered(modal').downloadUrl = Rendered(modal).downloadUrl
         /\ modal'.step = modal.step
         /\ modal'.downloadUrl = modal.downloadUrl
         /\ exports'[e].text = NoText

RECURSIVE PreOrder(_, _)
RECURSIVE PreOrderIn(_, _, _)
PreOrder(arena, i) == <<i>> \o PreOrderIn(arena, arena[i].children, 1)

PreOrderIn(arena, kids, c) ==
  IF c > Len(kids) THEN <<>>
  ELSE PreOrder(arena, kids[c]) \o PreOrderIn(arena, kids, c + 1)

\* The serialized node is a file with a non-empty thumbnailData.
HasPayload(obj) ==
  /\ Get(obj, "type") = "file"
  /\ Get(obj, "thumbnailData") \notin {Undefined, ""}

\* C17 (deserializer): the rebuilt tree has one node for every serialized
\* node, linked as the serialized nodes are; exactly the file nodes with a
\* non-empty thumbnailData have a handle and a file wrapper, and the
\* accumulator lists exactly those nodes, each once, in depth-first
\* pre-order.
C17_Deserialize ==
  codec.pc = "restored" =>
    /\ ~codec.restored.threw
    /\ LET doc == codec.text.nodes
           rest == codec.restored.nodes
           dorder == PreOrder(doc, codec.text.root)
           rorder == PreOrder(rest, codec.restored.ret)
       IN  /\ Len(rorder) = Len(dorder)
           /\ Range(rorder) = DOMAIN rest
           /\ Cardinality(Range(rorder)) = Len(rorder)
           /\ \A k \in DOMAIN rorder :
                 LET r == rest[rorder[k]]
                     d == doc[dorder[k]]
                 IN  /\ r.id = Get(d, "id") /\ r.name = Get(d, "name")
                     /\ r.path = Get(d, "path") /\ r.type = Get(d, "type")
                     /\ Len(r.children) = Len(d.children)
                     /\ \A c \in Range(r.children) : rest[c].parent = rorder[k]
                     /\ (r.url # 0) = HasPayload(d)
                     /\ (r.file # NoFile) = HasPayload(d)
           /\ codec.restored.acc = SelectSeq(rorder, LAMBDA n : rest[n].url # 0)
           /\ \A a, b \in DOMAIN rest :
                 (rest[a].url # 0 /\ rest[a].url = rest[b].url) => a = b

\* A snapshot of two folders was rebuilt: two files with a payload, in two
\* folders, and a file whose payload is empty.
C17_Witness ==
  /\ codec.pc = "restored"
  /\ Len(codec.restored.acc) >= 2
  /\ \E n \in DOMAIN codec.restored.nodes :
        /\ codec.restored.nodes[n].type = "file"
        /\ codec.restored.nodes[n].url = 0
        /\ n \notin Range(codec.restored.acc)
  /\ \E a, b \in Range(codec.restored.acc) :
        codec.restored.nodes[a].parent # codec.restored.nodes[b].parent

\* C18 (path rule): in a tree built by parseFilesToTree every node but the
\* root has the path name when its parent is the root and
\* parent.path + "/" + name otherwise, and no node but the root has the
\* empty path.
C18_PathRule ==
  codec.pc # "input" =>
    LET nodes == codec.built.nodes
    IN  \A n \in DOMAIN nodes : n # 1 =>
          /\ nodes[n].path = IF nodes[n].parent = 1 THEN nodes[n].name
                             ELSE nodes[nodes[n].parent].path \o "/" \o nodes[n].name
          /\ nodes[n].path # ""

(***************************************************************************)
(* Order of discovery.                                                     *)
(***************************************************************************)
\* The node n and the nodes above it, found by following parent.
RECURSIVE AncestorsOrSelf(_, _)
AncestorsOrSelf(nodes, n) ==
  IF n = 0 THEN {} ELSE {n} \cup AncestorsOrSelf(nodes, nodes[n].parent)

\* The position in the accumulator of the first file node at or below n,
\* 0 if there is none.
FirstEntry(nodes, acc, n) ==
  LET at == { k \in DOMAIN acc : n \in AncestorsOrSelf(nodes, acc[k]) }
  IN  IF at = {} THEN 0 ELSE CHOOSE k \in at : \A j \in at : k <= j

\* C19 (ingestion accumulator): the list returned by parseFilesToTree holds
\* exactly the file nodes reachable from the root, each once, the k-th one
\* being the node of the k-th kept entry of the input; the children of
\* every folder are in the order in which the entries first led to them.
C19_Accumulator ==
  codec.pc # "input" =>
    LET nodes == codec.built.nodes
        acc == codec.built.allImages
        kept == KeptFiles(codec.files)
        reachable == Range(PreOrder(nodes, 1))
    IN  /\ Range(acc) = { n \in reachable : nodes[n].type = "file" }
        /\ Cardinality(Range(acc)) = Len(acc)
        /\ Len(acc) = Len(kept)
        /\ \A k \in DOMAIN acc : nodes[acc[k]].file = kept[k]
        /\ \A n \in reachable :
              LET kids == nodes[n].children
              IN  \A a, b \in DOMAIN kids : a < b =>
                    /\ FirstEntry(nodes, acc, kids[a]) > 0
                    /\ FirstEntry(nodes, acc, kids[a]) < FirstEntry(nodes, acc, kids[b])

\* The entries of a subfolder arrived around a file of the folder: three
\* file nodes in the accumulator, and the subfolder ahead of the file among
\* the children of the folder.
C19_Witness ==
  /\ codec.pc # "input"
  /\ codec.files = InterleavedList
  /\ Len(codec.built.allImages) = 3
  /\ \E n \in DOMAIN codec.built.nodes :
        LET kids == codec.built.nodes[n].children
        IN  /\ Len(kids) = 2
            /\ codec.built.nodes[kids[1]].type = "folder"
            /\ codec.built.nodes[kids[2]].type = "file"
            /\ codec.built.nodes[kids[2]].name = "a.png"

(***************************************************************************)
(* Parent/child consistency.                                               *)
(***************************************************************************)
\* The node reached from n by following parent at most k times, stopping
\* at a node without parent.
RECURSIVE Climb(_, _, _)
Climb(nodes, n, k) ==
  IF k = 0 \/ nodes[n].parent = 0 THEN n
  ELSE Climb(nodes, nodes[n].parent, k - 1)

\* Every child's parent is the node that lists it, the root has no parent,
\* following parent leads from every node to the root, and a walk from the
\* root meets every node exactly once.
TreeConsistent(nodes, root) ==
  /\ nodes[root].parent = 0
  /\ \A n \in DOMAIN nodes : \A c \in Range(nodes[n].children) :
        c \in DOMAIN nodes /\ nodes[c].parent = n
  /\ \A n \in DOMAIN nodes : Climb(nodes, n, Len(nodes)) = root
  /\ Range(PreOrder(nodes, root)) = DOMAIN nodes
  /\ Len(PreOrder(nodes, root)) = Len(nodes)

\* C20 (parent/child consistency): the tree parseFilesToTree returns and
\* the tree deserializeTree returns are consistent: children point back to
\* their parent, the root has none, every node climbs to the root and is
\* reached from it exactly once.
C20_ParentChild ==
  /\ codec.pc # "input" => TreeConsistent(codec.built.nodes, 1)
  /\ (codec.pc = "restored" /\ ~codec.restored.threw)
       => TreeConsistent(codec.restored.nodes, codec.restored.ret)

\* A tree with a file three levels below the root was built and rebuilt.
C20_Witness ==
  /\ codec.pc = "restored"
  /\ ~codec.restored.threw
  /\ \E n \in DOMAIN codec.built.nodes :
        /\ codec.built.nodes[n].type = "file"
        /\ Climb(codec.built.nodes, n, 2) # 1
        /\ Climb(codec.built.nodes, n, 3) = 1
  /\ \E n \in DOMAIN codec.restored.nodes :
        /\ codec.restored.nodes[n].type = "file"
        /\ Climb(codec.restored.nodes, n, 2) # codec.restored.ret
        /\ Climb(codec.restored.nodes, n, 3) = codec.restored.ret

(***************************************************************************)
(* Workspace statistics.                                                   *)
(***************************************************************************)
\* C21 (skipped entries are not counted): the statistics an upload sets
\* count the accepted entries only: totalFiles is the number of file nodes
\* of the tree, totalFolders the number of its folder nodes without the
\* root, totalSize the sum of the sizes of the entries that were kept.
C21_StatsCountAccepted ==
  [][ \A files \in UploadLists :
        handleUpload(files)
          => LET nodes == trees'[rootNode'.t]
             IN  /\ stats'.totalFiles = Cardinality(FileNodesOf(nodes))
                 /\ stats'.totalFolders = Cardinality(FolderNodesOf(nodes) \ {1})
                 /\ stats'.totalSize = SumSizes(KeptFiles(files)) ]_vars

(***************************************************************************)
(* Ownership of object URLs.                                               *)
(***************************************************************************)
\* The object URLs of the nodes of allImages.
ListedUrls ==
  IF allImages.t = 0 THEN {}
  ELSE { trees[allImages.t][allImages.list[i]].url : i \in DOMAIN allImages.list }

\* C22 (no orphan handles after import): when no import is under way, the
\* effects of the render that ended the last one having run, every object
\* URL created so far belongs to a node of allImages or has been revoked.
C22_NoOrphanHandles ==
  (reader.state = "idle" /\ ~passive.pending) =>
    \A u \in DOMAIN revoked : u \in ListedUrls \/ revoked[u] >= 1

(***************************************************************************)
(* The end of an import.                                                   *)
(***************************************************************************)
\* C23 (import always ends): whenever isImporting is true it becomes false
\* again, whatever the outcome of the read, the parse and the rebuild.
C23_ImportEnds == isImporting ~> ~isImporting

(***************************************************************************)
(* Exports that outlive the dialog that started them.                      *)
(***************************************************************************)
\* The download of a dialog in step 'ready' is that of the export started
\* last, and that export walked the tree that is now the workspace's.
ReadyIsCurrent ==
  modal.step = "ready"
    => /\ modal.downloadUrl = Len(exports)
       /\ modal.downloadUrl \in DOMAIN exports
       /\ rootNode # Null
       /\ exports[modal.downloadUrl].tree = rootNode.t

\* A step of an export that was started before the dialog was opened the
\* last time leaves the step, the progress and the download URL of the
\* dialog alone: it queues no update of them.
StaleExportSilent ==
  \A e \in DOMAIN exports :
    (~exports[e].fresh /\ exports'[e] # exports[e]) => modal' = modal

\* C24 (offered snapshot is current): a dialog in step 'ready' offers the
\* download of the most recent Generate, made from the tree that is the
\* current rootNode, and an export started before the dialog was closed
\* and reopened never changes the step, the progress or the download URL
\* of the reopened dialog.
C24_OfferedIsCurrent == [][StaleExportSilent /\ ReadyIsCurrent']_vars

(***************************************************************************)
(* Consistency of the workspace state.                                     *)
(***************************************************************************)
\* The accumulator that was filled while the tree was built: the nodes that
\* were given an object URL, in the order of their creation.
AccumulatorOf(nodes) ==
  SelectSeq([i \in 1..Len(nodes) |-> i], LAMBDA n : nodes[n].url # 0)

\* C25 (workspace state consistency): rootNode is null exactly when
\* currentNode is null; otherwise currentNode is a node of the tree rooted
\* at rootNode and allImages is the accumulator that was produced together
\* with that tree.
C25_WorkspaceConsistent ==
  /\ (rootNode = Null) = (currentNode = Null)
  /\ rootNode # Null =>
       /\ rootNode.t \in DOMAIN trees
       /\ currentNode.t = rootNode.t
       /\ currentNode.n \in Range(PreOrder(trees[rootNode.t], rootNode.n))
       /\ allImages = [t |-> rootNode.t, list |-> AccumulatorOf(trees[rootNode.t])]
====
